---- MODULE Spec2Model ----
(***************************************************************************)
(* Model of the `site` crate of LunNova/x: the hot-reload coordinator      *)
(* (setup_hot_reload), the request handlers that read the shared           *)
(* RenderedSite / StaticFiles slots, and the HTTP response layer.          *)
(*                                                                         *)
(* Spec      the coordinator, the file watcher, the clock and the request  *)
(*           handlers running concurrently over the lock-guarded slots.    *)
(* FairSpec  Spec with the fairness the tokio scheduler gives its tasks.   *)
(* HttpSpec  handle_request as a function of one request and one site.     *)
(***************************************************************************)
EXTENDS Integers, Sequences, FiniteSets, TLC

(***************************************************************************)
(* Bounds of the model.                                                    *)
(***************************************************************************)
\* number of concurrent request handlers
NumHandlers == 1
\* number of events the file watcher delivers in one behaviour
MaxEvents == 2
\* granularity of the model's clock, in milliseconds
TickMs == 250

(***************************************************************************)
(* Program constants.                                                      *)
(***************************************************************************)
\* main.rs:110  Duration::from_millis(500)
debounce_duration == 500
\* main.rs:114  Duration::from_secs(3600), in milliseconds
idle_timeout == 3600000
\* main.rs:53   tokio::sync::mpsc::channel(1000)
channel_capacity == 1000
\* main.rs:152  sleep(Duration::from_secs(5))
retry_delay == 5000

Coord == 0
Handlers == 1..NumHandlers
Holders == {Coord} \cup Handlers

Min(a, b) == IF a <= b THEN a ELSE b

(***************************************************************************)
(* Paths the watcher reports, as sequences of path segments relative to    *)
(* the blog directory (load_blog_config makes it the working directory).   *)
(***************************************************************************)
theme_dir == "templates"
theme_static_dir == <<theme_dir, "static">>

PagePath == <<"content", "a.md">>
TemplatePath == <<theme_dir, "templates", "base.html">>
ThemeStaticPath == <<theme_dir, "static", "x.css">>
ContentAssetPath == <<"content", "img.png">>
\* the page file of the slug static/b/
StaticSectionPagePath == <<"content", "static", "b.md">>
TopStaticPath == <<"static", "x.css">>
TmpPath == <<"content", "a.md.tmp">>
BackupPath == <<"content", "a.md~">>
GitPath == <<"content", ".git", "index">>
SassPath == <<theme_dir, ".sass-cache", "x.scssc">>

\* the segments of the model's paths that contain a given substring
SegContains(seg, pat) ==
    \/ seg = pat
    \/ pat = ".tmp" /\ seg = "a.md.tmp"

\* str.contains(pat) for a pattern without '/'
PathContains(path, pat) == \E i \in 1..Len(path) : SegContains(path[i], pat)

\* str.contains("/<dir>/"): a whole segment that is neither first nor last
PathContainsDir(path, dir) == \E i \in 2..(Len(path) - 1) : path[i] = dir

\* str.ends_with("~")
PathEndsWithTilde(path) == path[Len(path)] \in {"a.md~"}

\* Path::starts_with: whole leading components
PathStartsWith(path, prefix) ==
    /\ Len(prefix) <= Len(path)
    /\ \A i \in 1..Len(prefix) : path[i] = prefix[i]

\* main.rs:132-137, the filter run on every path of an event
RelevantPath(path) ==
    /\ ~PathContains(path, ".sass-cache")
    /\ ~PathContains(path, ".tmp")
    /\ ~PathEndsWithTilde(path)
    /\ ~PathContainsDir(path, ".git")

\* main.rs:128, the event kinds that can queue paths
KindQueues(e) == e.need_rescan \/ e.kind \in {"modify", "create", "remove"}

\* main.rs:129-138
RelevantPaths(e) == {e.paths[i] : i \in {j \in 1..Len(e.paths) : RelevantPath(e.paths[j])}}

\* main.rs:158-161
HasStaticChanges(pending) ==
    \E path \in pending :
        \/ PathContainsDir(path, "static")
        \/ PathStartsWith(path, theme_static_dir)
        \/ PathStartsWith(path, <<"static">>)

(***************************************************************************)
(* What the watcher can deliver: Result<notify::Event, notify::Error>.     *)
(***************************************************************************)
Ev(kind, rescan, paths) == [ok |-> TRUE, kind |-> kind, need_rescan |-> rescan, paths |-> paths]
WatchError == [ok |-> FALSE, kind |-> "error", need_rescan |-> FALSE, paths |-> <<>>]

\* the end of the channel: every sender is dropped.  rx.recv() gives the
\* events sent before, then None for ever (main.rs:149)
Closed == [ok |-> FALSE, kind |-> "closed", need_rescan |-> FALSE, paths |-> <<>>]
ChannelIsClosed(ch) == ch # <<>> /\ ch[Len(ch)] = Closed

WatchEvents ==
    { Ev("modify", FALSE, <<PagePath>>),
      Ev("modify", FALSE, <<TemplatePath>>),
      Ev("modify", FALSE, <<TopStaticPath>>),
      Ev("modify", FALSE, <<ThemeStaticPath>>),
      Ev("create", FALSE, <<ContentAssetPath>>),
      Ev("modify", FALSE, <<StaticSectionPagePath>>),
      Ev("remove", FALSE, <<TmpPath, BackupPath, GitPath, SassPath>>),
      Ev("access", FALSE, <<PagePath>>),
      Ev("other", FALSE, <<PagePath>>),
      Ev("other", TRUE, <<PagePath>>),
      WatchError }

\* the tiers a changed path belongs to
IsPageInput(path) == path \in {PagePath, TemplatePath, StaticSectionPagePath}
IsAsset(path) == path \in {ThemeStaticPath, ContentAssetPath, TopStaticPath}

\* the event reports a change of the files on disk (access events and
\* errors report none)
ReportsChange(e) == e.ok /\ e.kind \in {"modify", "create", "remove"}
ChangesPages(e) == ReportsChange(e) /\ \E i \in 1..Len(e.paths) : IsPageInput(e.paths[i])
ChangesAssets(e) == ReportsChange(e) /\ \E i \in 1..Len(e.paths) : IsAsset(e.paths[i])

\* what a rebuild can meet on disk: nothing wrong, a page file that cannot be
\* read, a directory that cannot be read, a template that fails to load, a
\* template that fails to render, HTML the URL rewriter rejects
Faults == {"none", "unreadable_file", "unreadable_dir", "template_load", "template_render", "rewrite"}

(***************************************************************************)
(* tokio::sync::RwLock: a FIFO-fair multi-reader/single-writer lock.  A    *)
(* request that cannot be granted at once joins the queue, and a request   *)
(* made while the queue is not empty joins it too, so a queued writer      *)
(* makes later read requests wait.                                         *)
(***************************************************************************)
FreeLock == [readers |-> [h \in Holders |-> 0], writer |-> FALSE, queue |-> <<>>]

NoReaders(l) == \A h \in Holders : l.readers[h] = 0

\* a writer that would be granted while readers hold the lock
CanGrantIgnoringReaders(l, mode) == ~l.writer

CanGrant(l, mode) ==
    IF mode = "read" THEN ~l.writer ELSE ~l.writer /\ NoReaders(l)

GrantTo(l, who, mode) ==
    IF mode = "read" THEN [l EXCEPT !.readers[who] = @ + 1]
    ELSE [l EXCEPT !.writer = TRUE]

RECURSIVE Drain(_)
Drain(l) ==
    IF l.queue # <<>> /\ CanGrant(l, Head(l.queue).mode)
    THEN Drain(GrantTo([l EXCEPT !.queue = Tail(@)], Head(l.queue).who, Head(l.queue).mode))
    ELSE l

Acquire(l, who, mode) ==
    IF l.queue = <<>> /\ CanGrant(l, mode) THEN GrantTo(l, who, mode)
    ELSE [l EXCEPT !.queue = Append(@, [who |-> who, mode |-> mode])]

ReleaseRead(l, who) == Drain([l EXCEPT !.readers[who] = @ - 1])
ReleaseWrite(l) == Drain([l EXCEPT !.writer = FALSE])

Waiting(l, who) == \E i \in 1..Len(l.queue) : l.queue[i].who = who

(***************************************************************************)
(* State.                                                                  *)
(***************************************************************************)
VARIABLES
    \* the coordinator task (main.rs:52-184)
    pc,                 \* where the task is: "wait", a rebuild step, or "dead"
    pending_events,     \* main.rs:108
    elapsed,            \* last_event_time.elapsed(), main.rs:109,116
    timeout_duration,   \* main.rs:113-122
    waited,             \* time spent in the current tokio::time::timeout
    new_snapshot,       \* new_static_files / new_rendered_site, built off to the side
    builds,             \* number of snapshots built so far
    \* the watcher and the files it watches
    chan,               \* the mpsc channel, main.rs:53
    emitted,            \* events delivered so far
    fs,                 \* the files on disk
    \* the shared slots (main.rs:469-473)
    rendered_site, rs_lock,
    static_files, sf_lock,
    \* request handlers (handle_request and what it calls)
    hpc, hobs,
    \* bookkeeping for the debounce properties
    since_accept,       \* time since the loop last accepted an event
    burst_rebuilds,     \* rebuilds started since the current burst began
    \* one request against one site (HttpSpec)
    site, req, resp,
    \* one call of a function of the build and what it returned
    call, result

coordVars == <<pc, pending_events, elapsed, timeout_duration, waited, new_snapshot, builds>>
watchVars == <<chan, emitted, fs>>
slotVars == <<rendered_site, rs_lock, static_files, sf_lock>>
handlerVars == <<hpc, hobs>>
ghostVars == <<since_accept, burst_rebuilds>>
httpVars == <<site, req, resp, call, result>>
vars == <<coordVars, watchVars, slotVars, handlerVars, ghostVars, httpVars>>

\* pages.rs:130-138: every field of a RenderedSite carries the number of the
\* build that produced it; built_from is the version of the page inputs read
RenderedSiteOf(gen, from) ==
    [pages_data |-> gen, aliases |-> gen, sitemap |-> gen, rss_feed |-> gen,
     atom_feed |-> gen, last_modified |-> gen, built_from |-> from]

\* pages.rs:35, 660-723
StaticFilesOf(gen, from) == [gen |-> gen, built_from |-> from]

\* hobs: the build number a handler read first in the request it is serving
NoObs == -1

\* main.rs:113-122 with the pending set emptied only when the batch is empty
TimeoutDurationNoDebounce(pending, el) ==
    IF pending = {} THEN idle_timeout ELSE 0

TimeoutDuration(pending, el) ==
    IF pending = {} THEN idle_timeout
    ELSE IF el >= debounce_duration THEN 0
    ELSE debounce_duration - el

\* last_event_time left alone when an event is accepted
ElapsedNotReset(el) == el

\* main.rs:145  last_event_time = Instant::now()
ElapsedAfterAccept(el) == 0

\* time spent waiting: values past the debounce interval and short of the
\* timeout are not told apart by any guard
WaitedAfter(w, d, t) ==
    IF w + d >= t THEN t ELSE Min(w + d, debounce_duration)

InitCoordinator ==
    /\ pc = "wait"
    /\ pending_events = {}
    /\ elapsed = 0
    /\ timeout_duration = TimeoutDuration({}, 0)
    /\ waited = 0
    /\ new_snapshot = StaticFilesOf(0, 0)
    /\ builds = 0
    /\ chan = <<>>
    /\ emitted = 0
    /\ fs = [pages |-> 0, assets |-> 0]
    /\ rendered_site = RenderedSiteOf(0, 0)
    /\ rs_lock = FreeLock
    /\ static_files = StaticFilesOf(0, 0)
    /\ sf_lock = FreeLock
    /\ hpc = [h \in Handlers |-> "idle"]
    /\ hobs = [h \in Handlers |-> NoObs]
    /\ since_accept = debounce_duration
    /\ burst_rebuilds = 0

(***************************************************************************)
(* The file watcher's callback (main.rs:55-69): it runs on the watcher's   *)
(* thread whenever a file changes, as long as the coordinator task, which  *)
(* owns the watcher, is alive.                                             *)
(***************************************************************************)
Notify ==
    /\ pc # "dead"
    /\ ~ChannelIsClosed(chan)
    /\ emitted < MaxEvents
    /\ \E e \in WatchEvents :
         /\ fs' = [pages |-> fs.pages + (IF ChangesPages(e) THEN 1 ELSE 0),
                   assets |-> fs.assets + (IF ChangesAssets(e) THEN 1 ELSE 0)]
         /\ chan' = IF e.ok /\ e.kind = "access" THEN chan
                    ELSE IF Len(chan) < channel_capacity THEN Append(chan, e)
                    ELSE chan
    /\ emitted' = emitted + 1
    /\ UNCHANGED <<coordVars, slotVars, handlerVars, ghostVars, httpVars>>

(***************************************************************************)
(* The passage of time.                                                    *)
(***************************************************************************)
Tick ==
    /\ \E d \in {TickMs, idle_timeout} :
         /\ elapsed' = Min(elapsed + d, debounce_duration)
         /\ since_accept' = Min(since_accept + d, debounce_duration)
         /\ waited' = IF pc = "wait" THEN WaitedAfter(waited, d, timeout_duration)
                      ELSE IF pc = "sleep" THEN Min(waited + d, retry_delay)
                      ELSE waited
    /\ UNCHANGED <<pc, pending_events, timeout_duration, new_snapshot, builds>>
    /\ UNCHANGED <<watchVars, slotVars, handlerVars, burst_rebuilds, httpVars>>

(***************************************************************************)
(* The coordinator loop (main.rs:112-183).                                 *)
(***************************************************************************)
\* main.rs:124-149: rx.recv() is ready; timeout() polls it before the timer
Recv ==
    /\ pc = "wait"
    /\ chan # <<>>
    /\ Head(chan) # Closed
    /\ LET e == Head(chan)
           accepted == e.ok /\ KindQueues(e) /\ RelevantPaths(e) # {}
           pend == IF accepted THEN pending_events \cup RelevantPaths(e) ELSE pending_events
           el == IF accepted THEN ElapsedAfterAccept(elapsed) ELSE elapsed
       IN /\ chan' = Tail(chan)
          /\ pending_events' = pend
          /\ elapsed' = el
          /\ timeout_duration' = TimeoutDuration(pend, el)
          /\ waited' = 0
          /\ since_accept' = IF accepted THEN 0 ELSE since_accept
          /\ burst_rebuilds' = IF accepted /\ since_accept >= debounce_duration THEN 0
                               ELSE burst_rebuilds
    /\ UNCHANGED <<pc, new_snapshot, builds, emitted, fs, slotVars, handlerVars, httpVars>>

\* main.rs:154-155 with nothing pending: back to the top of the loop
IdleTimeout ==
    /\ pc = "wait"
    /\ chan = <<>>
    /\ waited >= timeout_duration
    /\ pending_events = {}
    /\ timeout_duration' = TimeoutDuration(pending_events, elapsed)
    /\ waited' = 0
    /\ UNCHANGED <<pc, pending_events, elapsed, new_snapshot, builds>>
    /\ UNCHANGED <<watchVars, slotVars, handlerVars, ghostVars, httpVars>>

\* main.rs:154-169: the timer fired with paths pending: a rebuild starts
StartRebuild ==
    /\ pc = "wait"
    /\ chan = <<>>
    /\ waited >= timeout_duration
    /\ pending_events # {}
    /\ pc' = IF HasStaticChanges(pending_events) THEN "load_static" ELSE "load_tera"
    /\ burst_rebuilds' = Min(burst_rebuilds + 1, 2)
    /\ UNCHANGED <<pending_events, elapsed, timeout_duration, waited, new_snapshot, builds>>
    /\ UNCHANGED <<watchVars, slotVars, handlerVars, since_accept, httpVars>>

\* main.rs:165,167: preload_static_files, then static_files.write() is requested
LoadStatic ==
    /\ pc = "load_static"
    /\ new_snapshot' = StaticFilesOf(builds + 1, fs.assets)
    /\ builds' = builds + 1
    /\ sf_lock' = Acquire(sf_lock, Coord, "write")
    /\ pc' = "write_static"
    /\ UNCHANGED <<pending_events, elapsed, timeout_duration, waited>>
    /\ UNCHANGED <<watchVars, rendered_site, rs_lock, static_files, handlerVars, ghostVars, httpVars>>

\* the end of an iteration that rebuilt: main.rs:179, then the top of the loop
EndRebuild ==
    /\ pending_events' = {}
    /\ timeout_duration' = TimeoutDuration({}, elapsed)
    /\ waited' = 0
    /\ pc' = "wait"
    /\ UNCHANGED <<elapsed, new_snapshot, builds>>

\* main.rs:167: the write guard is granted, the slot is assigned, the guard dropped
WriteStatic ==
    /\ pc = "write_static"
    /\ sf_lock.writer
    /\ static_files' = new_snapshot
    /\ sf_lock' = ReleaseWrite(sf_lock)
    /\ EndRebuild
    /\ UNCHANGED <<watchVars, rendered_site, rs_lock, handlerVars, ghostVars, httpVars>>

\* the faults that end the task at Tera::new(..).unwrap(), main.rs:171
FatalToLoad(fault) == fault = "template_load"

\* main.rs:170-174: the templates are loaded from disk and stored in the
\* templates slot, which no handler reads: its write guard never waits
LoadTera ==
    /\ pc = "load_tera"
    /\ \E fault \in Faults :
         pc' = IF FatalToLoad(fault) THEN "dead" ELSE "load_pages"
    /\ UNCHANGED <<pending_events, elapsed, timeout_duration, waited, new_snapshot, builds>>
    /\ UNCHANGED <<watchVars, slotVars, handlerVars, ghostVars, httpVars>>

\* the faults that end the task inside preload_pages_data: pages.rs:378
\* (visit_dirs(..).unwrap()) and pages.rs:559 (context_and_render_page(..).unwrap());
\* an unreadable file (render.rs:247-248) and a rewriter error (pages.rs:561-564)
\* fall back
FatalToBuild(fault) == fault \in {"unreadable_dir", "template_render"}

\* main.rs:175-176: preload_pages_data, then rendered_site.write() is requested
LoadPages ==
    /\ pc = "load_pages"
    /\ \E fault \in Faults :
         IF FatalToBuild(fault)
         THEN /\ pc' = "dead"
              /\ UNCHANGED <<new_snapshot, builds, rs_lock>>
         ELSE /\ new_snapshot' = RenderedSiteOf(builds + 1, fs.pages)
              /\ builds' = builds + 1
              /\ rs_lock' = Acquire(rs_lock, Coord, "write")
              /\ pc' = "write_site"
    /\ UNCHANGED <<pending_events, elapsed, timeout_duration, waited>>
    /\ UNCHANGED <<watchVars, rendered_site, static_files, sf_lock, handlerVars, ghostVars, httpVars>>

\* main.rs:176
WriteSite ==
    /\ pc = "write_site"
    /\ rs_lock.writer
    /\ rendered_site' = new_snapshot
    /\ rs_lock' = ReleaseWrite(rs_lock)
    /\ EndRebuild
    /\ UNCHANGED <<watchVars, static_files, sf_lock, handlerVars, ghostVars, httpVars>>

(***************************************************************************)
(* The HTTP response layer.  Paths and table keys are strings, modelled    *)
(* as sequences of characters; Bytes are sequences of numbers; times are   *)
(* milliseconds since the epoch.                                           *)
(***************************************************************************)
\* largest byte position a Range header of the model names
MaxPos == 2
\* latest If-Modified-Since date of the model, in seconds
MaxSecs == 2

StartsWith(s, p) == Len(p) <= Len(s) /\ SubSeq(s, 1, Len(p)) = p
EndsWith(s, p) == Len(p) <= Len(s) /\ SubSeq(s, Len(s) - Len(p) + 1, Len(s)) = p

\* str::trim_start_matches: the pattern is removed as often as it leads
RECURSIVE TrimStartMatches(_, _)
TrimStartMatches(s, p) ==
    IF p # <<>> /\ StartsWith(s, p)
    THEN TrimStartMatches(SubSeq(s, Len(p) + 1, Len(s)), p)
    ELSE s

\* str::trim_end_matches: the pattern is removed as often as it trails
RECURSIVE TrimEndMatches(_, _)
TrimEndMatches(s, p) ==
    IF p # <<>> /\ EndsWith(s, p)
    THEN TrimEndMatches(SubSeq(s, 1, Len(s) - Len(p)), p)
    ELSE s

Slash == <<"/">>
DotMd == <<".", "m", "d">>
DotTxt == <<".", "t", "x", "t">>
DotHtml == <<".", "h", "t", "m", "l">>
Index == <<"i", "n", "d", "e", "x">>
StaticPrefix == <<"/", "s", "t", "a", "t", "i", "c", "/">>
SitemapPath == <<"/", "s", "i", "t", "e", "m", "a", "p", ".", "x", "m", "l">>
RssPath == <<"/", "r", "s", "s", ".", "x", "m", "l">>
AtomPath == <<"/", "a", "t", "o", "m", ".", "x", "m", "l">>

\* utils.rs:12-22
normalize_path(path) ==
    LET normalized == TrimStartMatches(path, Slash)
    IN IF ~EndsWith(normalized, Slash)
       THEN IF ~EndsWith(normalized, DotMd) /\ ~EndsWith(normalized, DotTxt)
            THEN normalized \o Slash
            ELSE normalized
       ELSE normalized

\* the keys and paths of the model
DotCss == <<".", "c", "s", "s">>
KeyX == <<"x">>
KeyStaticB == <<"s", "t", "a", "t", "i", "c", "/", "b">> \o DotCss
SlugRoot == <<"/">>
SlugA == <<"a", "/">>
SlugX == <<"x", "/">>
SlugStaticB == <<"s", "t", "a", "t", "i", "c", "/", "b", "/">>
\* utils.rs:47-53: the slug of the file -/n.md, whose first segment is
\* empty once its hyphens are dropped
SlugDashN == <<"/", "n", "/">>

RequestPaths ==
    { SitemapPath, RssPath, AtomPath,
      <<"/">>,
      <<"/", "a">>,
      <<"/", "a", "/">>,
      <<"/", "a", "/">> \o Index \o DotMd,
      <<"/", "a">> \o DotMd,
      <<"/", "a", "/">> \o Index \o DotHtml,
      <<"/">> \o KeyX,
      <<"/">> \o KeyStaticB,
      <<"/">> \o SlugStaticB,
      <<"/">> \o SlugDashN,
      <<"/", "n">> }

\* a table as a set of entries with distinct keys
HasKey(table, k) == \E e \in table : e.key = k
Get(table, k) == CHOOSE e \in table : e.key = k

\* what the tables of a site may hold.  A slug has no dot (utils.rs:45), a
\* static key and an alias key are any relative path; every site has the
\* root page
AliasEntries == { [key |-> KeyX, target |-> SlugA] }
StaticEntries ==
    { [key |-> KeyX, content |-> <<1, 2>>, last_modified |-> 1500],
      [key |-> KeyStaticB, content |-> <<3>>, last_modified |-> 1000] }
PageEntries ==
    { [key |-> SlugA, content |-> <<4>>, html_content |-> <<5, 6>>, last_modified |-> 2000],
      [key |-> SlugX, content |-> <<7>>, html_content |-> <<8>>, last_modified |-> 1999],
      [key |-> SlugStaticB, content |-> <<9, 10>>, html_content |-> <<11, 12>>, last_modified |-> 1000],
      [key |-> SlugDashN, content |-> <<21>>, html_content |-> <<22, 23>>, last_modified |-> 1998] }
RootPage == [key |-> SlugRoot, content |-> <<13>>, html_content |-> <<14, 15>>, last_modified |-> 2001]

\* pages.rs:577-587: the target of an alias is the page that declares it
Sites ==
    { s \in { [aliases |-> al, static_files |-> st, pages_data |-> pg \cup {RootPage},
               sitemap |-> <<16, 17>>, rss_feed |-> <<18>>, atom_feed |-> <<19, 20>>,
               last_modified |-> 2001] :
               al \in SUBSET AliasEntries, st \in SUBSET StaticEntries,
               pg \in SUBSET PageEntries } :
      \A a \in s.aliases : HasKey(s.pages_data, a.target) }

\* header values of a request.  If-Modified-Since: absent, an HTTP date
\* (whole seconds), text that is no date, bytes that are no header text.
\* Range: absent, "bytes=s-e", "bytes=s-", "bytes=s", anything else
\* (another unit, several ranges)
NoHeader == [form |-> "absent"]
ImsValues ==
    {NoHeader, [form |-> "garbage"], [form |-> "opaque"]}
        \cup { [form |-> "date", secs |-> t] : t \in 0..MaxSecs }
RangeValues ==
    {NoHeader, [form |-> "other"]}
        \cup { [form |-> "closed", start |-> a, end |-> b] : a, b \in 0..MaxPos }
        \cup { [form |-> "open", start |-> 0], [form |-> "nodash", start |-> 0] }

Requests ==
    { [method |-> m, path |-> p, if_modified_since |-> i, range |-> r] :
      m \in {"GET", "HEAD", "OPTIONS", "POST"}, p \in RequestPaths,
      i \in ImsValues, r \in RangeValues }

None == [some |-> FALSE]
Some(v) == [some |-> TRUE, value |-> v]

\* the task serving the request panicked: no response is sent (no status
\* line, written as status 0), the connection is dropped
Panicked == [status |-> 0, headers |-> {}, body |-> <<>>, panicked |-> TRUE]

\* main.rs:616-648
SecurityHeaders ==
    { <<"x-content-type-options", "nosniff">>,
      <<"referrer-policy", "strict-origin-when-cross-origin">>,
      <<"strict-transport-security", "max-age=31536000; includeSubDomains">>,
      <<"access-control-allow-origin", "*">>,
      <<"cross-origin-embedder-policy", "credentialless">>,
      <<"cross-origin-opener-policy", "same-origin">>,
      <<"cross-origin-resource-policy", "cross-origin">> }

\* httpdate::fmt_http_date: an HTTP date has whole seconds
FmtHttpDate(t) == t \div 1000

\* httpdate::parse_http_date: the time of an HTTP date, or an error
ParseHttpDate(h) == IF h.form = "date" THEN Some(h.secs * 1000) ELSE None

\* the comparison of main.rs:656 without the truncation of main.rs:654-655
NotModifiedUntruncated(last_modified, since) == last_modified <= since

\* main.rs:654-656
NotModified(last_modified, since) == (last_modified \div 1000) * 1000 <= since

NotModifiedResponse == [status |-> 304, headers |-> {}, body |-> <<>>]

\* main.rs:650-667: "panic" (to_str().unwrap() on bytes that are no header
\* text), Some(response) or None
check_if_modified_and_etag(last_modified, r) ==
    IF r.if_modified_since.form = "absent" THEN None
    ELSE IF r.if_modified_since.form = "opaque" THEN Some(Panicked)
    ELSE IF ParseHttpDate(r.if_modified_since).some
            /\ NotModified(last_modified, ParseHttpDate(r.if_modified_since).value)
         THEN Some(NotModifiedResponse)
    ELSE None

\* main.rs:888-900: Some(<<start, end + 1>>) or None.  "bytes=s-" gives an
\* empty second part, which does not parse; "bytes=s" has no second part and
\* ends at total_length - 1 (the resources of the model are not empty)
parse_range_header(h, total_length) ==
    IF h.form = "closed"
    THEN IF h.start <= h.end /\ h.end < total_length
         THEN Some(<<h.start, h.end + 1>>) ELSE None
    ELSE IF h.form = "nodash"
    THEN IF h.start <= total_length - 1 /\ total_length - 1 < total_length
         THEN Some(<<h.start, total_length>>) ELSE None
    ELSE None

\* Bytes::slice(start..end)
Slice(content, start, end) == SubSeq(content, start + 1, end)

\* main.rs:845
RangeBeyond(range, len) == range[2] >= len

\* main.rs:862-879 with the body sent whatever the method
ResponseBodyAnyMethod(method, content, start, end) == Slice(content, start, end)

\* main.rs:862-879
ResponseBody(method, content, start, end) ==
    IF method = "GET" THEN Slice(content, start, end) ELSE <<>>

\* main.rs:815-885; r is a Response: status, source (None or metadata and
\* content), range (None or <<start, end>>, end exclusive)
into_response(r, method) ==
    IF method = "OPTIONS"
    THEN [status |-> 204, headers |-> SecurityHeaders \cup {<<"allow", "GET, HEAD, OPTIONS">>}, body |-> <<>>]
    ELSE IF ~r.source.some
    THEN [status |-> r.status, headers |-> SecurityHeaders \cup {<<"accept-ranges", "bytes">>}, body |-> <<>>]
    ELSE LET src == r.source.value
             base == SecurityHeaders \cup
                     { <<"accept-ranges", "bytes">>,
                       <<"content-type", src.content_type>>,
                       <<"last-modified", FmtHttpDate(src.last_modified)>> }
         IN IF r.range.some /\ RangeBeyond(r.range.value, src.len)
            THEN [status |-> 416,
                  headers |-> base \cup {<<"content-range", <<"bytes", "*", src.len>>>>},
                  body |-> <<>>]
            ELSE LET start == IF r.range.some THEN r.range.value[1] ELSE 0
                     end == IF r.range.some THEN r.range.value[2] ELSE src.len
                 IN [status |-> IF r.range.some THEN 206 ELSE r.status,
                     headers |-> base
                        \cup (IF r.range.some
                              THEN {<<"content-range", <<"bytes", start, end - 1, src.len>>>>}
                              ELSE {})
                        \cup {<<"content-length", end - start>>},
                     body |-> ResponseBody(method, src.content, start, end)]

\* Response::new(status).with_source(BodySource::Preloaded {..})
Preloaded(content, content_type, last_modified) ==
    Some([len |-> Len(content), content_type |-> content_type,
          last_modified |-> last_modified, content |-> content])

\* main.rs:502-517, 521-544: the reserved paths take no Range
ServeXml(content, content_type, s, r) ==
    LET cond == check_if_modified_and_etag(s.last_modified, r)
    IN IF cond.some THEN cond.value
       ELSE into_response([status |-> 200,
                           source |-> Preloaded(content, content_type, s.last_modified),
                           range |-> None], r.method)

\* main.rs:584-610, 686-707, 711-731: a resource that was found
ServeFound(content, content_type, last_modified, r) ==
    LET cond == check_if_modified_and_etag(last_modified, r)
    IN IF cond.some THEN cond.value
       ELSE into_response([status |-> 200,
                           source |-> Preloaded(content, content_type, last_modified),
                           range |-> parse_range_header(r.range, Len(content))], r.method)

\* main.rs:612, 733
NotFound(r) == into_response([status |-> 404, source |-> None, range |-> None], r.method)

\* mime_guess::from_path(..).first_or_octet_stream()
MimeOf(key) ==
    IF EndsWith(key, DotCss) THEN "text/css" ELSE "application/octet-stream"

\* main.rs:574-614
serve_static_file(path, s, r) ==
    LET trimmed_path == TrimStartMatches(path, StaticPrefix)
    IN IF HasKey(s.static_files, trimmed_path)
       THEN LET f == Get(s.static_files, trimmed_path)
            IN ServeFound(f.content, MimeOf(trimmed_path), f.last_modified, r)
       ELSE NotFound(r)

\* main.rs:676-682
LookupKeyIfPlain(page) ==
    TrimEndMatches(TrimEndMatches(TrimEndMatches(TrimEndMatches(TrimEndMatches(TrimEndMatches(
        page, Index \o DotMd), DotMd), Index \o DotHtml), DotHtml), Index \o DotTxt), DotTxt)

\* main.rs:670-735
serve_page(page, s, r) ==
    LET lookup_key_if_plain == LookupKeyIfPlain(page)
    IN IF lookup_key_if_plain # page /\ HasKey(s.pages_data, lookup_key_if_plain)
       THEN LET d == Get(s.pages_data, lookup_key_if_plain)
            IN ServeFound(d.content, "text/markdown; charset=utf-8", d.last_modified, r)
       ELSE IF HasKey(s.pages_data, page)
       THEN LET d == Get(s.pages_data, page)
            IN ServeFound(d.html_content, "text/html; charset=utf-8", d.last_modified, r)
       ELSE NotFound(r)

\* main.rs:552-556
Redirect(target) == [status |-> 301, headers |-> {<<"location", Slash \o target>>}, body |-> <<>>]

\* main.rs:499-571
handle_request(r, s) ==
    IF r.method \notin {"GET", "HEAD", "OPTIONS"}
    THEN into_response([status |-> 405, source |-> None, range |-> None], r.method)
    ELSE IF r.path = SitemapPath
    THEN ServeXml(s.sitemap, "text/xml; charset=utf-8", s, r)
    ELSE IF r.path \in {RssPath, AtomPath}
    THEN ServeXml(IF r.path = RssPath THEN s.rss_feed ELSE s.atom_feed,
                  "application/xml; charset=utf-8", s, r)
    ELSE LET trimmed_path == TrimStartMatches(r.path, Slash)
         IN IF HasKey(s.aliases, trimmed_path)
            THEN Redirect(Get(s.aliases, trimmed_path).target)
            ELSE IF StartsWith(r.path, StaticPrefix) \/ HasKey(s.static_files, trimmed_path)
            THEN serve_static_file(trimmed_path, s, r)
            ELSE serve_page(normalize_path(r.path), s, r)

(***************************************************************************)
(* Request handlers (main.rs:477-735).  Each handler serves one request at *)
(* a time.                                                                 *)
(***************************************************************************)
\* the fields of RenderedSite a reserved path serves after last_modified:
\* main.rs:514 (sitemap), 525-529 (rss_feed, atom_feed)
BodyFields == {"sitemap", "rss_feed", "atom_feed"}

\* main.rs:501, 520, 550: the first thing every GET/HEAD/OPTIONS arm does;
\* reserved is whether the path is /sitemap.xml, /rss.xml or /atom.xml
StartRequest(h) ==
    /\ hpc[h] = "idle"
    /\ \E reserved \in BOOLEAN :
         hpc' = [hpc EXCEPT ![h] = IF reserved THEN "xml_wait" ELSE "alias_wait"]
    /\ rs_lock' = Acquire(rs_lock, h, "read")
    /\ UNCHANGED <<coordVars, watchVars, rendered_site, static_files, sf_lock, hobs, ghostVars, httpVars>>

\* main.rs:502, 521: the guard is held; last_modified is read for the
\* conditional check, which may answer 304 at once
XmlLastModified(h) ==
    /\ hpc[h] = "xml_wait"
    /\ ~Waiting(rs_lock, h)
    /\ \E not_modified \in BOOLEAN :
         IF not_modified
         THEN /\ hpc' = [hpc EXCEPT ![h] = "idle"]
              /\ rs_lock' = ReleaseRead(rs_lock, h)
              /\ UNCHANGED hobs
         ELSE /\ hpc' = [hpc EXCEPT ![h] = "xml_body"]
              /\ hobs' = [hobs EXCEPT ![h] = rendered_site.last_modified]
              /\ UNCHANGED rs_lock
    /\ UNCHANGED <<coordVars, watchVars, rendered_site, static_files, sf_lock, ghostVars, httpVars>>

\* main.rs:505-517, 525-544: the body is read under the same guard, the
\* response is built and the guard dropped
XmlBody(h) ==
    /\ hpc[h] = "xml_body"
    /\ hobs' = [hobs EXCEPT ![h] = NoObs]
    /\ hpc' = [hpc EXCEPT ![h] = "idle"]
    /\ rs_lock' = ReleaseRead(rs_lock, h)
    /\ UNCHANGED <<coordVars, watchVars, rendered_site, static_files, sf_lock, ghostVars, httpVars>>

\* main.rs:549-560: the alias table is read and its guard dropped; without a
\* hit static_files.read() is requested
AliasLookup(h) ==
    /\ hpc[h] = "alias_wait"
    /\ ~Waiting(rs_lock, h)
    /\ rs_lock' = ReleaseRead(rs_lock, h)
    /\ \E hit \in BOOLEAN :
         IF hit
         THEN /\ hpc' = [hpc EXCEPT ![h] = "idle"]
              /\ UNCHANGED <<sf_lock, hobs>>
         ELSE /\ hpc' = [hpc EXCEPT ![h] = "static_wait"]
              /\ hobs' = [hobs EXCEPT ![h] = rendered_site.aliases]
              /\ sf_lock' = Acquire(sf_lock, h, "read")
    /\ UNCHANGED <<coordVars, watchVars, rendered_site, static_files, ghostVars, httpVars>>

\* main.rs:562-567 with the guard of line 560 held: serve_static_file asks
\* for static_files.read() again (main.rs:579), serve_page for
\* rendered_site.read() (main.rs:675)
StaticCheck(h) ==
    /\ hpc[h] = "static_wait"
    /\ ~Waiting(sf_lock, h)
    /\ \E is_static \in BOOLEAN :
         IF is_static
         THEN /\ hpc' = [hpc EXCEPT ![h] = "inner_wait"]
              /\ hobs' = [hobs EXCEPT ![h] = NoObs]
              /\ sf_lock' = Acquire(sf_lock, h, "read")
              /\ UNCHANGED rs_lock
         ELSE /\ hpc' = [hpc EXCEPT ![h] = "page_wait"]
              /\ rs_lock' = Acquire(rs_lock, h, "read")
              /\ UNCHANGED <<sf_lock, hobs>>
    /\ UNCHANGED <<coordVars, watchVars, rendered_site, static_files, ghostVars, httpVars>>

\* main.rs:583-613: the file is looked up under the second guard; both
\* guards are dropped on return
StaticServe(h) ==
    /\ hpc[h] = "inner_wait"
    /\ ~Waiting(sf_lock, h)
    /\ sf_lock' = ReleaseRead(ReleaseRead(sf_lock, h), h)
    /\ hpc' = [hpc EXCEPT ![h] = "idle"]
    /\ UNCHANGED <<coordVars, watchVars, rendered_site, rs_lock, static_files, hobs, ghostVars, httpVars>>

\* main.rs:676-734: the page table is read; both guards are dropped on return
PageServe(h) ==
    /\ hpc[h] = "page_wait"
    /\ ~Waiting(rs_lock, h)
    /\ hobs' = [hobs EXCEPT ![h] = NoObs]
    /\ rs_lock' = ReleaseRead(rs_lock, h)
    /\ sf_lock' = ReleaseRead(sf_lock, h)
    /\ hpc' = [hpc EXCEPT ![h] = "idle"]
    /\ UNCHANGED <<coordVars, watchVars, rendered_site, static_files, ghostVars, httpVars>>

HandlerStep(h) ==
    \/ XmlLastModified(h)
    \/ XmlBody(h)
    \/ AliasLookup(h)
    \/ StaticCheck(h)
    \/ StaticServe(h)
    \/ PageServe(h)

CoordinatorStep ==
    \/ Recv
    \/ IdleTimeout
    \/ StartRebuild
    \/ LoadStatic
    \/ WriteStatic
    \/ LoadTera
    \/ LoadPages
    \/ WriteSite

\* HttpSpec is not running: no site, no request
NoSite == [aliases |-> {}]
NoRequest == [method |-> "none"]
NoResponse == [status |-> 0]

\* no function of the build has been called, none has returned
NoCall == [fn |-> "none"]
NoResult == [fn |-> "none"]

InitCallIdle ==
    /\ call = NoCall
    /\ result = NoResult

InitHttpIdle ==
    /\ site = NoSite
    /\ req = NoRequest
    /\ resp = NoResponse
    /\ InitCallIdle

Init ==
    /\ InitCoordinator
    /\ InitHttpIdle

Next ==
    \/ Notify
    \/ Tick
    \/ Recv
    \/ IdleTimeout
    \/ StartRebuild
    \/ LoadStatic
    \/ WriteStatic
    \/ LoadTera
    \/ LoadPages
    \/ WriteSite
    \/ \E h \in Handlers : StartRequest(h)
    \/ \E h \in Handlers : XmlLastModified(h)
    \/ \E h \in Handlers : XmlBody(h)
    \/ \E h \in Handlers : AliasLookup(h)
    \/ \E h \in Handlers : StaticCheck(h)
    \/ \E h \in Handlers : StaticServe(h)
    \/ \E h \in Handlers : PageServe(h)

Spec == Init /\ [][Next]_vars

(***************************************************************************)
(* HttpSpec: one request, drawn from Requests, answered from one site,     *)
(* drawn from Sites.                                                       *)
(***************************************************************************)
InitHttp ==
    /\ InitCoordinator
    /\ site \in Sites
    /\ req = NoRequest
    /\ resp = NoResponse
    /\ InitCallIdle

HandleRequest ==
    /\ req = NoRequest
    /\ \E r \in Requests :
         /\ req' = r
         /\ resp' = handle_request(r, site)
    /\ UNCHANGED <<coordVars, watchVars, slotVars, handlerVars, ghostVars, site, call, result>>

HttpNext == HandleRequest

HttpSpec == InitHttp /\ [][HttpNext]_vars

(***************************************************************************)
(* The URL rewriter (url_rewriter.rs).  A string is a sequence of lexemes: *)
(* the delimiters the rewriter and the URL parser look at, and the runs of *)
(* letters, digits and inner dots between them (names), each of which      *)
(* begins with a letter.                                                   *)
(***************************************************************************)
\* most leading "../" of a relative value
MaxUp == 3
\* most segments of a page path
MaxDepth == 3

Delimiters == {" ", "#", ":", "/", ".", ".."}

\* str::trim
RECURSIVE TrimStart(_)
TrimStart(s) == IF s # <<>> /\ Head(s) = " " THEN TrimStart(Tail(s)) ELSE s

RECURSIVE TrimEnd(_)
TrimEnd(s) == IF s # <<>> /\ s[Len(s)] = " " THEN TrimEnd(SubSeq(s, 1, Len(s) - 1)) ELSE s

Trim(s) == TrimEnd(TrimStart(s))

\* str::starts_with(c) for a delimiter c
StartsWithChar(s, c) == s # <<>> /\ s[1] = c

\* str::starts_with("<name>:")
StartsWithScheme(s, name) == Len(s) >= 2 /\ s[1] = name /\ s[2] = ":"

\* url: a scheme is a letter followed by letters, digits, "+", "-", ".",
\* and ends at the first ":"
HasScheme(s) == Len(s) >= 2 /\ s[1] \notin Delimiters /\ s[2] = ":"

\* url: the special schemes (those with a host) among the model's
SpecialSchemes == {"http", "https"}

RECURSIVE DropSlashes(_)
DropSlashes(s) == IF StartsWithChar(s, "/") THEN DropSlashes(Tail(s)) ELSE s

CountSlashes(s) == Len(s) - Len(DropSlashes(s))

\* the segments of a path without its leading "/": the names between the
\* slashes, "" where there is none
RECURSIVE SplitSegments(_)
SplitSegments(s) ==
    IF s = <<>> THEN <<"">>
    ELSE IF Head(s) = "/" THEN <<"">> \o SplitSegments(Tail(s))
    ELSE IF Len(s) = 1 THEN <<Head(s)>>
    ELSE <<Head(s)>> \o SplitSegments(SubSeq(s, 3, Len(s)))

\* url: shorten a path, with nothing removed
PopNothing(path) == path

\* url: shorten a path
Pop(path) == IF path = <<>> THEN <<>> ELSE SubSeq(path, 1, Len(path) - 1)

\* url (path state): segments are appended one by one; "." is skipped,
\* ".." removes the last segment; a dot segment at the end leaves a
\* trailing slash
RECURSIVE Walk(_, _)
Walk(path, segs) ==
    IF segs = <<>> THEN path
    ELSE IF Head(segs) = ".."
    THEN Walk(IF Len(segs) = 1 THEN Append(Pop(path), "") ELSE Pop(path), Tail(segs))
    ELSE IF Head(segs) = "."
    THEN Walk(IF Len(segs) = 1 THEN Append(path, "") ELSE path, Tail(segs))
    ELSE Walk(Append(path, Head(segs)), Tail(segs))

\* url (authority and path of a special URL): a host is required; the
\* values of the model have no port or query, and no fragment after a host
AfterDoubleSlash(scheme, s) ==
    IF s = <<>> \/ s[1] \in Delimiters THEN None
    ELSE Some([scheme |-> scheme, host |-> s[1],
               path |-> Walk(<<>>, SplitSegments(IF Len(s) >= 2 THEN SubSeq(s, 3, Len(s)) ELSE <<>>)),
               fragment |-> <<>>])

\* url (relative state) with the last segment of the base kept
ParseRelativeKeepLast(s, base) ==
    IF s = <<>> THEN Some([base EXCEPT !.fragment = <<>>])
    ELSE IF s[1] = "#" THEN Some([base EXCEPT !.fragment = s])
    ELSE IF Len(s) >= 2 /\ s[1] = "/" /\ s[2] = "/"
    THEN AfterDoubleSlash(base.scheme, SubSeq(s, 3, Len(s)))
    ELSE IF s[1] = "/"
    THEN Some([base EXCEPT !.path = Walk(<<>>, SplitSegments(Tail(s))), !.fragment = <<>>])
    ELSE Some([base EXCEPT !.path = Walk(base.path, SplitSegments(s)), !.fragment = <<>>])

\* url (relative state): a reference without a scheme, against a base
ParseRelative(s, base) ==
    IF s = <<>> THEN Some([base EXCEPT !.fragment = <<>>])
    ELSE IF s[1] = "#" THEN Some([base EXCEPT !.fragment = s])
    ELSE IF Len(s) >= 2 /\ s[1] = "/" /\ s[2] = "/"
    THEN AfterDoubleSlash(base.scheme, SubSeq(s, 3, Len(s)))
    ELSE IF s[1] = "/"
    THEN Some([base EXCEPT !.path = Walk(<<>>, SplitSegments(Tail(s))), !.fragment = <<>>])
    ELSE Some([base EXCEPT !.path = Walk(Pop(base.path), SplitSegments(s)), !.fragment = <<>>])

\* url::Url::options().base_url(base).parse(input); base is None or Some(url).
\* A URL of a scheme that is not special keeps what follows the scheme as
\* it is.
UrlParse(input, base) ==
    LET s == Trim(input)
    IN IF HasScheme(s)
       THEN LET rest == SubSeq(s, 3, Len(s))
            IN IF s[1] \in SpecialSchemes
               THEN IF base.some /\ CountSlashes(rest) < 2 /\ base.value.scheme = s[1]
                    THEN ParseRelative(rest, base.value)
                    ELSE AfterDoubleSlash(s[1], DropSlashes(rest))
               ELSE Some([scheme |-> s[1], host |-> "", path |-> rest, fragment |-> <<>>])
       ELSE IF base.some THEN ParseRelative(s, base.value)
       ELSE None

\* Url::parse (url_rewriter.rs:164, 196)
Url_parse(input) == UrlParse(input, None)

\* Url::join (url_rewriter.rs:165, 201, 205)
Url_join(base, input) == UrlParse(input, Some(base))

RECURSIVE SerializePath(_)
SerializePath(path) ==
    IF path = <<>> THEN <<>>
    ELSE <<"/">> \o (IF Head(path) = "" THEN <<>> ELSE <<Head(path)>>) \o SerializePath(Tail(path))

\* Url::to_string (url_rewriter.rs:202, 206); the fragment keeps its "#"
Url_to_string(u) ==
    IF u.scheme \in SpecialSchemes
    THEN <<u.scheme, ":", "/", "/", u.host>> \o SerializePath(u.path) \o u.fragment
    ELSE <<u.scheme, ":">> \o u.path

Ok(v) == [ok |-> TRUE, value |-> v]
Err == [ok |-> FALSE]

\* url_rewriter.rs:186-192
IsLeftAlone(trimmed) ==
    \/ trimmed = <<>>
    \/ StartsWithChar(trimmed, "#")
    \/ StartsWithScheme(trimmed, "mailto")
    \/ StartsWithScheme(trimmed, "javascript")
    \/ StartsWithScheme(trimmed, "data")
    \/ StartsWithScheme(trimmed, "tel")

\* url_rewriter.rs:183-207
rewrite_single_url(url_str, site_base, current_url) ==
    LET trimmed == Trim(url_str)
    IN IF IsLeftAlone(trimmed) THEN Ok(trimmed)
       ELSE IF Url_parse(trimmed).some THEN Ok(trimmed)
       ELSE IF StartsWithChar(trimmed, "/")
       THEN IF Url_join(site_base, trimmed).some
            THEN Ok(Url_to_string(Url_join(site_base, trimmed).value))
            ELSE Err
       ELSE IF Url_join(current_url, trimmed).some
            THEN Ok(Url_to_string(Url_join(current_url, trimmed).value))
            ELSE Err

\* url_rewriter.rs:43-49
should_rewrite_attr(tag_name, attr_name) ==
    IF attr_name \in {"href", "src"} THEN TRUE
    ELSE IF attr_name = "action" THEN tag_name = "form"
    ELSE FALSE

\* url_rewriter.rs:61-65: the value write_start_tag gives an attribute (the
\* values of the model hold nothing html_escape changes)
AttrValue(tag_name, attr, site_base, current_url) ==
    IF should_rewrite_attr(tag_name, attr.name)
    THEN IF rewrite_single_url(attr.value, site_base, current_url).ok
         THEN rewrite_single_url(attr.value, site_base, current_url).value
         ELSE attr.value
    ELSE attr.value

\* url_rewriter.rs:163-181 on a document of one start tag with one
\* attribute: the attribute of the output, or Err
rewrite_urls(html, base_url, current_path) ==
    IF ~Url_parse(base_url).some THEN Err
    ELSE IF ~Url_join(Url_parse(base_url).value, current_path).some THEN Err
    ELSE Ok(AttrValue(html.tag, html.attr, Url_parse(base_url).value,
                      Url_join(Url_parse(base_url).value, current_path).value))

\* pages.rs:561-564: the page keeps its rendered HTML when rewrite_urls fails
FinalHtml(html, base_url, current_path) ==
    IF rewrite_urls(html, base_url, current_path).ok
    THEN rewrite_urls(html, base_url, current_path).value
    ELSE html.attr.value

(***************************************************************************)
(* UrlSpec: one attribute of one start tag, rewritten for one page of one  *)
(* site.                                                                   *)
(***************************************************************************)
RECURSIVE Ups(_)
Ups(k) == IF k = 0 THEN <<>> ELSE <<"..", "/">> \o Ups(k - 1)

DirNames == <<"a", "b", "c", "d", "e">>

\* the slug of a page k directories deep: a/b/c/
RECURSIVE SlugOfDepth(_)
SlugOfDepth(k) == IF k = 0 THEN <<>> ELSE SlugOfDepth(k - 1) \o <<DirNames[k], "/">>

\* pages.rs:561 passes the slug, "/" for the root page; the tests of
\* url_rewriter.rs pass the path with its leading slash
CurrentPaths ==
    { <<"/">> \o SlugOfDepth(k) : k \in 0..MaxDepth } \cup { SlugOfDepth(k) : k \in 1..MaxDepth }

ExampleBase == <<"https", ":", "/", "/", "example.com">>

\* config.site.base_url: a site at the root of its host, a site under a
\* directory, a value that is no URL
BaseUrls == { ExampleBase, ExampleBase \o <<"/", "blog", "/">>, <<"example.com">> }

AttrCores ==
    { <<>>,
      <<"#", "x">>,
      <<"mailto", ":", "x">>,
      <<"javascript", ":", "x">>,
      <<"data", ":", "x">>,
      <<"tel", ":", "x">>,
      <<"https", ":", "/", "/", "o.com", "/", "p">>,
      <<"foo", ":", "x">>,
      <<"https", ":", "/", "/">>,
      <<"https", ":">>,
      <<"/", "about">>,
      <<"/", "/", "cdn", "/", "x">>,
      <<"/", "/">>,
      <<".", "/", "img.png">>,
      <<"nested", "/", "pic.jpg">>,
      <<"..">>,
      <<".">> }
        \cup { Ups(k) \o <<"x">> : k \in 0..MaxUp }
        \cup { Ups(k) \o <<"other.html">> : k \in 1..MaxUp }

Padding == { <<>>, <<" ">> }

AttrValues == { l \o c \o r : l \in Padding, c \in AttrCores, r \in Padding }

StartTags ==
    { [tag |-> t[1], attr |-> [name |-> t[2], value |-> v]] :
      t \in { <<"a", "href">>, <<"img", "src">>, <<"form", "action">>,
              <<"div", "action">>, <<"a", "title">> },
      v \in AttrValues }

RewriteCalls ==
    { [fn |-> "rewrite_urls", html |-> h, base_url |-> b, current_path |-> c] :
      h \in StartTags, b \in BaseUrls, c \in CurrentPaths }

InitUrl ==
    /\ InitCoordinator
    /\ site = NoSite
    /\ req = NoRequest
    /\ resp = NoResponse
    /\ call \in RewriteCalls
    /\ result = NoResult

RewritePage ==
    /\ call.fn = "rewrite_urls"
    /\ result = NoResult
    /\ result' = [fn |-> "rewrite_urls",
                  value |-> FinalHtml(call.html, call.base_url, call.current_path)]
    /\ UNCHANGED <<coordVars, watchVars, slotVars, handlerVars, ghostVars, site, req, resp, call>>

UrlNext == RewritePage

UrlSpec == InitUrl /\ [][UrlNext]_vars

(***************************************************************************)
(* The page graph (pages.rs).  Slugs and dates are strings, sequences of   *)
(* characters, ordered as Rust orders strings: by the first character that *)
(* differs, a proper prefix first.                                         *)
(***************************************************************************)
\* largest sort_key of the model's pages
MaxPriority == 1

\* the code points of the model's characters
CharCode(c) ==
    CASE c = " " -> 32
      [] c = "-" -> 45
      [] c = "/" -> 47
      [] c = "0" -> 48
      [] c = "1" -> 49
      [] c = "9" -> 57
      [] c = "A" -> 65
      [] c = "_" -> 95
      [] c = "a" -> 97
      [] c = "b" -> 98
      [] c = "c" -> 99
      [] c = "d" -> 100
      [] c = "e" -> 101
      [] c = "g" -> 103
      [] c = "i" -> 105
      [] c = "n" -> 110
      [] c = "s" -> 115
      [] c = "t" -> 116
      [] c = "x" -> 120

\* Ord::cmp on i32
IntCmp(a, b) == IF a < b THEN "Less" ELSE IF a > b THEN "Greater" ELSE "Equal"

\* Ord::cmp on str
RECURSIVE StrCmp(_, _)
StrCmp(a, b) ==
    IF a = <<>> /\ b = <<>> THEN "Equal"
    ELSE IF a = <<>> THEN "Less"
    ELSE IF b = <<>> THEN "Greater"
    ELSE IF Head(a) # Head(b) THEN IntCmp(CharCode(Head(a)), CharCode(Head(b)))
    ELSE StrCmp(Tail(a), Tail(b))

\* Ordering::reverse
Reverse(o) == IF o = "Less" THEN "Greater" ELSE IF o = "Greater" THEN "Less" ELSE "Equal"

\* pages.rs:94 comparing the dates the other way round
DateCmpAscending(a_d, b_d) == StrCmp(a_d, b_d)

\* pages.rs:94  b_d.cmp(a_d)
DateCmp(a_d, b_d) == StrCmp(b_d, a_d)

\* pages.rs:91-105  PageSortKey::cmp
PageSortKey_cmp(self, other) ==
    IF IntCmp(self.sort_key, other.sort_key) # "Equal"
    THEN IntCmp(self.sort_key, other.sort_key)
    ELSE IF self.date.some /\ other.date.some
    THEN IF DateCmp(self.date.value, other.date.value) = "Equal"
         THEN StrCmp(self.slug, other.slug)
         ELSE DateCmp(self.date.value, other.date.value)
    ELSE IF self.date.some THEN "Less"
    ELSE IF other.date.some THEN "Greater"
    ELSE StrCmp(self.slug, other.slug)

\* front matter dates: ISO strings have fields of fixed width, here a
\* two-digit day
Dates == { <<"0", "9">>, <<"1", "0">> }

\* the day a date string names
DayOf(d) == (CharCode(d[1]) - 48) * 10 + (CharCode(d[2]) - 48)

OptionalDates == {None} \cup { Some(d) : d \in Dates }
Priorities == 0..MaxPriority

SortKeySlugs == { <<"a", "/">>, <<"a", "-", "b", "/">>, <<"a", "/", "b", "/">>, <<"b", "/">> }

PageSortKeys ==
    { [sort_key |-> k, date |-> d, slug |-> g] :
      k \in Priorities, d \in OptionalDates, g \in SortKeySlugs }

\* OrderSpec: three keys are compared with each other
InitOrder ==
    /\ InitCoordinator
    /\ site = NoSite
    /\ req = NoRequest
    /\ resp = NoResponse
    /\ call \in { [fn |-> "cmp", a |-> a, b |-> b, c |-> c] : a, b, c \in PageSortKeys }
    /\ result = NoResult

CompareKeys ==
    /\ call.fn = "cmp"
    /\ result = NoResult
    /\ result' = [fn |-> "cmp",
                  ab |-> PageSortKey_cmp(call.a, call.b),
                  ba |-> PageSortKey_cmp(call.b, call.a),
                  bc |-> PageSortKey_cmp(call.b, call.c),
                  ac |-> PageSortKey_cmp(call.a, call.c)]
    /\ UNCHANGED <<coordVars, watchVars, slotVars, handlerVars, ghostVars, site, req, resp, call>>

OrderNext == CompareKeys

OrderSpec == InitOrder /\ [][OrderNext]_vars

(***************************************************************************)
(* preload_pages_metadata (pages.rs:385-525): sibling orders and page      *)
(* summaries from pages_metadata, a BTreeMap from slug to metadata,        *)
(* modelled as a set of pages [slug, sort_key, date] with distinct slugs.  *)
(***************************************************************************)
MetadataOf(pages_metadata, slug) == CHOOSE m \in pages_metadata : m.slug = slug

\* BTreeMap::keys: the slugs in ascending order
RECURSIVE SortedKeys(_)
SortedKeys(slugs) ==
    IF slugs = {} THEN <<>>
    ELSE LET least == CHOOSE a \in slugs : \A b \in slugs \ {a} : StrCmp(a, b) = "Less"
         IN <<least>> \o SortedKeys(slugs \ {least})

Keys(pages_metadata) == SortedKeys({ m.slug : m \in pages_metadata })

\* str::rfind('/'): the last position of a slash, 0 for none
RFindSlash(str) ==
    IF \E i \in 1..Len(str) : str[i] = "/"
    THEN CHOOSE i \in 1..Len(str) : str[i] = "/" /\ \A j \in (i + 1)..Len(str) : str[j] # "/"
    ELSE 0

\* pages.rs:425-430
PrefixOf(slugified_key) ==
    LET last_slash == RFindSlash(TrimEndMatches(slugified_key, Slash))
    IN IF last_slash > 0 THEN SubSeq(slugified_key, 1, last_slash - 1) ELSE <<>>

\* pages.rs:424-433: the keys of one prefix, in the order they were pushed
RECURSIVE GroupOf(_, _)
GroupOf(keys, prefix) ==
    IF keys = <<>> THEN <<>>
    ELSE (IF PrefixOf(Head(keys)) = prefix THEN <<Head(keys)>> ELSE <<>>) \o GroupOf(Tail(keys), prefix)

\* pages.rs:60-79  PageSortKey::from_metadata
from_metadata(slug, metadata) ==
    [sort_key |-> metadata.sort_key, date |-> metadata.date, slug |-> slug]

\* pages.rs:437-443 without the reverse()
SiblingCmpAscending(a, b, pages_metadata) ==
    PageSortKey_cmp(from_metadata(a, MetadataOf(pages_metadata, a)),
                    from_metadata(b, MetadataOf(pages_metadata, b)))

\* pages.rs:437-443: the comparator of pages.sort_by
SiblingCmp(a, b, pages_metadata) ==
    Reverse(PageSortKey_cmp(from_metadata(a, MetadataOf(pages_metadata, a)),
                            from_metadata(b, MetadataOf(pages_metadata, b))))

\* slice::sort_by is stable: an element goes behind those that do not
\* compare Greater than it
Insert(x, sorted, pages_metadata) ==
    LET n == Cardinality({ i \in 1..Len(sorted) : SiblingCmp(sorted[i], x, pages_metadata) # "Greater" })
    IN SubSeq(sorted, 1, n) \o <<x>> \o SubSeq(sorted, n + 1, Len(sorted))

RECURSIVE SortSiblings(_, _, _)
SortSiblings(pages, done, pages_metadata) ==
    IF pages = <<>> THEN done
    ELSE SortSiblings(Tail(pages), Insert(Head(pages), done, pages_metadata), pages_metadata)

\* pages.rs:423-446
SiblingOrders(pages_metadata) ==
    [prefix \in { PrefixOf(m.slug) : m \in pages_metadata } |->
        SortSiblings(GroupOf(Keys(pages_metadata), prefix), <<>>, pages_metadata)]

\* str::matches('/').count()
Depth(slug) == Cardinality({ i \in 1..Len(slug) : slug[i] = "/" })

\* pages.rs:449-486: a summary with no children yet
SummaryOf(m) == [slug |-> m.slug, sort_key |-> m.sort_key, date |-> m.date, children |-> <<>>]

\* pages.rs:81-87  PageSortKey::from_summary
from_summary(summary) ==
    [sort_key |-> summary.sort_key, date |-> summary.date, slug |-> summary.slug]

\* pages.rs:490: a stable sort by depth, deepest first
RECURSIVE AtDepth(_, _)
AtDepth(keys, d) ==
    IF keys = <<>> THEN <<>>
    ELSE (IF Depth(Head(keys)) = d THEN <<Head(keys)>> ELSE <<>>) \o AtDepth(Tail(keys), d)

RECURSIVE DeepestFirst(_, _)
DeepestFirst(keys, d) == IF d < 0 THEN <<>> ELSE AtDepth(keys, d) \o DeepestFirst(keys, d - 1)

\* pages.rs:501-503 without the comparison of depths
IsDescendant(child, page) ==
    /\ StartsWith(child.slug, page.slug)
    /\ child.slug # page.slug

\* pages.rs:501-503
IsDirectChild(child, page) ==
    /\ StartsWith(child.slug, page.slug)
    /\ child.slug # page.slug
    /\ Depth(child.slug) = Depth(page.slug) + 1

\* pages.rs:508: sort_by_key(PageSortKey::from_summary)
RECURSIVE SortChildren(_)
SortChildren(children) ==
    IF children = {} THEN <<>>
    ELSE LET first == CHOOSE a \in children : \A b \in children \ {a} :
                          PageSortKey_cmp(from_summary(a), from_summary(b)) # "Greater"
         IN <<first>> \o SortChildren(children \ {first})

\* pages.rs:495-514: the loop over all_pages; pages_summaries is the map
\* built so far, as the set of its values
RECURSIVE BuildSummaries(_, _, _)
BuildSummaries(all_pages, pages_summaries, pages_metadata) ==
    IF all_pages = <<>> THEN pages_summaries
    ELSE LET page == SummaryOf(MetadataOf(pages_metadata, Head(all_pages)))
             children == SortChildren({ child \in pages_summaries : IsDirectChild(child, page) })
         IN BuildSummaries(Tail(all_pages),
                           { q \in pages_summaries : q.slug # page.slug }
                               \cup { [page EXCEPT !.children = children] },
                           pages_metadata)

\* pages.rs:448-514
PagesSummaries(pages_metadata) ==
    LET depths == { Depth(m.slug) : m \in pages_metadata }
        deepest == IF depths = {} THEN 0 ELSE CHOOSE d \in depths : \A e \in depths : e <= d
    IN BuildSummaries(DeepestFirst(Keys(pages_metadata), deepest), {}, pages_metadata)

\* pages.rs:385-525: the fields of PreloadedMetadata the page graph is made of
preload_pages_metadata(pages_metadata) ==
    [fn |-> "preload_pages_metadata",
     sibling_orders |-> SiblingOrders(pages_metadata),
     pages_summaries |-> PagesSummaries(pages_metadata)]

\* GraphSpec: the content directory holds some of these pages, each with a
\* sort_key and perhaps a date in its front matter
GraphSlugs ==
    { <<"/">>, <<"a", "/">>, <<"a", "/", "b", "/">>, <<"a", "/", "c", "/">>,
      <<"a", "/", "b", "/", "c", "/">> }

PagesMetadataSets ==
    { { [slug |-> g, sort_key |-> f[g].sort_key, date |-> f[g].date] :
        g \in { h \in GraphSlugs : f[h].present } } :
      f \in [GraphSlugs ->
                { [present |-> FALSE, sort_key |-> 0, date |-> None] }
                    \cup { [present |-> TRUE, sort_key |-> k, date |-> d] :
                           k \in Priorities, d \in OptionalDates }] }

InitGraph ==
    /\ InitCoordinator
    /\ site = NoSite
    /\ req = NoRequest
    /\ resp = NoResponse
    /\ call \in { [fn |-> "preload_pages_metadata", pages_metadata |-> pm] : pm \in PagesMetadataSets }
    /\ result = NoResult

PreloadPagesMetadata ==
    /\ call.fn = "preload_pages_metadata"
    /\ result = NoResult
    /\ result' = preload_pages_metadata(call.pages_metadata)
    /\ UNCHANGED <<coordVars, watchVars, slotVars, handlerVars, ghostVars, site, req, resp, call>>

GraphNext == PreloadPagesMetadata

GraphSpec == InitGraph /\ [][GraphNext]_vars

(***************************************************************************)
(* The content directory: get_all_pages, slugify, load_pages_metadata and  *)
(* the whole of preload_pages_metadata, run again and again on a directory *)
(* that does not change while the clock goes on (ContentSpec).             *)
(***************************************************************************)
MaxFiles == 2
MaxMtime == 2
MaxElapse == 1
MaxBuilds == 2

\* char::to_lowercase on the model's characters
ToLower(c) == IF c = "A" THEN "a" ELSE c

\* char::is_alphanumeric on the model's characters
IsAlphanumeric(c) == c \in {"A", "a", "b", "d", "e", "g", "i", "n", "s", "t", "x"}

\* str::split(char): the pieces between the separators, empty ones included
RECURSIVE SplitOn(_, _)
SplitOn(str, sep) ==
    IF \E i \in 1..Len(str) : str[i] = sep
    THEN LET i == CHOOSE k \in 1..Len(str) : str[k] = sep /\ \A j \in 1..(k - 1) : str[j] # sep
         IN <<SubSeq(str, 1, i - 1)>> \o SplitOn(SubSeq(str, i + 1, Len(str)), sep)
    ELSE <<str>>

\* [&str]::join(sep)
RECURSIVE JoinWith(_, _)
JoinWith(pieces, sep) ==
    IF pieces = <<>> THEN <<>>
    ELSE IF Len(pieces) = 1 THEN pieces[1]
    ELSE pieces[1] \o <<sep>> \o JoinWith(Tail(pieces), sep)

IndexName == <<"i", "n", "d", "e", "x">>
UnderIndexName == <<"_", "i", "n", "d", "e", "x">>

\* utils.rs:27-34
StripIndex(input) ==
    IF EndsWith(input, Slash \o IndexName) THEN TrimEndMatches(input, Slash \o IndexName)
    ELSE IF EndsWith(input, Slash \o UnderIndexName) THEN TrimEndMatches(input, Slash \o UnderIndexName)
    ELSE IF input = UnderIndexName \/ input = IndexName THEN <<>>
    ELSE input

\* utils.rs:50: the hyphen-separated parts of a segment that are not empty
CollapseHyphens(segment) ==
    JoinWith(SelectSeq(SplitOn(segment, "-"), LAMBDA part : part # <<>>), "-")

\* utils.rs:24-61
slugify(str) ==
    LET input == StripIndex(str)
        kept == SelectSeq(SplitOn(input, "/"), LAMBDA segment : ~StartsWithChar(segment, "_"))
        joined == JoinWith(kept, "/")
        lowered == [i \in 1..Len(joined) |-> ToLower(joined[i])]
        replaced == [i \in 1..Len(lowered) |-> IF lowered[i] \in {" ", "_"} THEN "-" ELSE lowered[i]]
        filtered == SelectSeq(replaced, LAMBDA c : IsAlphanumeric(c) \/ c = "-" \/ c = "/")
        segments == SplitOn(filtered, "/")
        cleaned == [i \in 1..Len(segments) |-> CollapseHyphens(segments[i])]
        result0 == JoinWith(cleaned, "/")
    IN IF EndsWith(result0, Slash) THEN result0 ELSE result0 \o Slash

\* pages.rs:379: pages.sort_by(|a, b| a.0.cmp(&b.0)), a stable sort
RECURSIVE SortBySlug(_, _)
SortBySlug(pages, done) ==
    IF pages = <<>> THEN done
    ELSE LET x == Head(pages)
             n == Cardinality({ i \in 1..Len(done) : StrCmp(done[i].slug, x.slug) # "Greater" })
         IN SortBySlug(Tail(pages), SubSeq(done, 1, n) \o <<x>> \o SubSeq(done, n + 1, Len(done)))

\* pages.rs:353-382: dir lists the page files in the order read_dir gives
get_all_pages(dir) ==
    SortBySlug([i \in 1..Len(dir) |-> [slug |-> slugify(dir[i].path), original_path |-> dir[i].path]], <<>>)

\* BTreeMap::insert, HashMap::insert: the entry of the key is replaced
MapInsert(map, entry) == { e \in map : e.slug # entry.slug } \cup {entry}

\* pages.rs:235-288: the content of a file stands for the file it was read
\* from
RECURSIVE LoadEach(_, _, _, _)
LoadEach(all_pages, dir, show_drafts, metadata) ==
    IF all_pages = <<>> THEN metadata
    ELSE LET page == Head(all_pages)
             file == dir[CHOOSE i \in 1..Len(dir) : dir[i].path = page.original_path]
         IN LoadEach(Tail(all_pages), dir, show_drafts,
                     IF ~show_drafts /\ file.draft THEN metadata
                     ELSE MapInsert(metadata, [slug |-> page.slug, content |-> file.path,
                                               last_modified |-> file.mtime]))

load_pages_metadata(dir, show_drafts) == LoadEach(get_all_pages(dir), dir, show_drafts, {})

TagsName == <<"t", "a", "g", "s">>

\* pages.rs:290-350: every page has a tag or is "~untagged", so there is a
\* tags page as soon as there is a page; it is stamped SystemTime::now()
generate_tags_page_metadata(pages_metadata, now) ==
    IF pages_metadata = {} THEN None
    ELSE Some([content |-> TagsName, last_modified |-> now])

\* pages.rs:391-395
WithTagsPage(pages_metadata, now) ==
    LET tags_metadata == generate_tags_page_metadata(pages_metadata, now)
    IN IF tags_metadata.some
       THEN MapInsert(pages_metadata, [slug |-> slugify(TagsName),
                                       content |-> tags_metadata.value.content,
                                       last_modified |-> tags_metadata.value.last_modified])
       ELSE pages_metadata

\* pages.rs:397-401
RECURSIVE PagePaths(_, _, _)
PagePaths(all_pages, pages_metadata, page_paths) ==
    IF all_pages = <<>> THEN page_paths
    ELSE LET page == Head(all_pages)
         IN PagePaths(Tail(all_pages), pages_metadata,
                      IF \E m \in pages_metadata : m.slug = page.slug
                      THEN MapInsert(page_paths, [slug |-> page.slug, original_path |-> page.original_path])
                      ELSE page_paths)

\* pages.rs:403-408
LastModified(pages_metadata) ==
    IF pages_metadata = {} THEN 0
    ELSE CHOOSE t \in { m.last_modified : m \in pages_metadata } :
            \A m \in pages_metadata : m.last_modified <= t

\* the sort keys of pages whose front matter names neither sort_key nor date
DefaultKeys(pages_metadata) ==
    { [slug |-> m.slug, sort_key |-> 0, date |-> None] : m \in pages_metadata }

\* pages.rs:385-525: no file of the directory sets in_nav, and there is no
\* badges directory
PreloadedMetadataOf(dir, show_drafts, now) ==
    LET all_pages == get_all_pages(dir)
        pages_metadata == WithTagsPage(load_pages_metadata(dir, show_drafts), now)
    IN [page_paths |-> PagePaths(all_pages, pages_metadata, {}),
        pages_metadata |-> pages_metadata,
        pages_summaries |-> PagesSummaries(DefaultKeys(pages_metadata)),
        nav_items |-> <<>>,
        sibling_orders |-> SiblingOrders(DefaultKeys(pages_metadata)),
        badges |-> {},
        last_modified |-> LastModified(pages_metadata)]

\* the page files of the content directory, without their extension
FilePaths ==
    { <<"a">>, <<"A">>, <<"_", "d", "/", "a">>, <<"a", "/", "i", "n", "d", "e", "x">>,
      <<"a", "/", "b">>, <<"i", "n", "d", "e", "x">> }

Files == [path : FilePaths, mtime : 1..MaxMtime, draft : BOOLEAN]

\* the directories: up to MaxFiles files of different paths, in the order
\* read_dir lists them
RECURSIVE Dirs(_)
Dirs(n) ==
    IF n = 0 THEN {<<>>}
    ELSE Dirs(n - 1) \cup
         { Append(dir, f) : dir \in { d \in Dirs(n - 1) : Len(d) = n - 1 },
                            f \in Files } 

DistinctPaths(dir) == \A i, j \in 1..Len(dir) : i # j => dir[i].path # dir[j].path

InitContent ==
    /\ InitCoordinator
    /\ site = NoSite
    /\ req = NoRequest
    /\ resp = NoResponse
    /\ call \in { [fn |-> "rebuild", dir |-> dir, show_drafts |-> sd, now |-> MaxMtime] :
                  dir \in { d \in Dirs(MaxFiles) : DistinctPaths(d) }, sd \in BOOLEAN }
    /\ result = [fn |-> "rebuild", runs |-> <<>>]

\* main.rs:165: one more build of the same directory
Rebuild ==
    /\ call.fn = "rebuild"
    /\ Len(result.runs) < MaxBuilds
    /\ result' = [result EXCEPT !.runs = Append(@, PreloadedMetadataOf(call.dir, call.show_drafts, call.now))]
    /\ UNCHANGED <<coordVars, watchVars, slotVars, handlerVars, ghostVars, site, req, resp, call>>

\* the clock goes on between two builds
Elapse ==
    /\ call.fn = "rebuild"
    /\ call.now < MaxMtime + MaxElapse
    /\ call' = [call EXCEPT !.now = @ + 1]
    /\ UNCHANGED <<coordVars, watchVars, slotVars, handlerVars, ghostVars, site, req, resp, result>>

ContentNext == Rebuild \/ Elapse

ContentSpec == InitContent /\ [][ContentNext]_vars

(***************************************************************************)
(* ContextSpec: the breadcrumbs and the children list of the template      *)
(* context of one page (context.rs:87-126, 279-363), over the metadata     *)
(* preload_pages_metadata made of a content directory.  A page is          *)
(* [slug, sort_key, date, title].                                          *)
(***************************************************************************)
\* BTreeMap::get
GetPage(pages_metadata, key) ==
    IF \E m \in pages_metadata : m.slug = key
    THEN Some(MetadataOf(pages_metadata, key))
    ELSE None

\* context.rs:94-98: the title of the root entry
RootTitle(pages_metadata) ==
    IF GetPage(pages_metadata, Slash).some /\ GetPage(pages_metadata, Slash).value.title.some
    THEN GetPage(pages_metadata, Slash).value.title.value
    ELSE <<"~">>

\* context.rs:108-112: the title of the entry of an ancestor path
AncestorTitle(pages_metadata, ancestor_path) ==
    IF GetPage(pages_metadata, ancestor_path).some /\ GetPage(pages_metadata, ancestor_path).value.title.some
    THEN GetPage(pages_metadata, ancestor_path).value.title.value
    ELSE ancestor_path

\* context.rs:87-126
generate_breadcrumbs_from_metadata(page, pages_metadata, base_url) ==
    IF TrimEndMatches(page, Slash) = <<>> THEN <<>>
    ELSE LET parts == SelectSeq(SplitOn(page, "/"), LAMBDA part : part # <<>>)
             ancestor_path(i) == JoinWith(SubSeq(parts, 1, i), "/")
         IN <<[title |-> RootTitle(pages_metadata),
               url |-> TrimEndMatches(base_url, Slash) \o Slash,
               is_current |-> page = <<>>]>>
            \o [i \in 1..(Len(parts) - 1) |->
                    [title |-> AncestorTitle(pages_metadata, ancestor_path(i)),
                     url |-> TrimEndMatches(base_url, Slash) \o Slash \o ancestor_path(i) \o Slash,
                     is_current |-> FALSE]]

\* context.rs:318-361: the slugs of page.children, an empty list for none
page_children(page, sibling_orders, pages_metadata) ==
    LET page_deslashed == TrimEndMatches(page, Slash)
    IN IF page_deslashed \in DOMAIN sibling_orders
       THEN LET children == sibling_orders[page_deslashed]
                reversed == [i \in 1..Len(children) |-> children[Len(children) + 1 - i]]
            IN SelectSeq(reversed, LAMBDA child_page : GetPage(pages_metadata, child_page).some)
       ELSE <<>>

\* context.rs:129-365: the parts of the context the page graph decides
context_and_render_page(page, pages_metadata, base_url) ==
    [fn |-> "context_and_render_page",
     breadcrumbs |-> generate_breadcrumbs_from_metadata(page, pages_metadata, base_url),
     children |-> page_children(page, SiblingOrders(pages_metadata), pages_metadata)]

OptionalTitles == { None, Some(<<"T">>) }

TitledPagesSets ==
    { { [slug |-> g, sort_key |-> 0, date |-> None, title |-> f[g].title] :
        g \in { h \in GraphSlugs : f[h].present } } :
      f \in [GraphSlugs ->
                { [present |-> FALSE, title |-> None] }
                    \cup { [present |-> TRUE, title |-> t] : t \in OptionalTitles }] }

InitContext ==
    /\ InitCoordinator
    /\ site = NoSite
    /\ req = NoRequest
    /\ resp = NoResponse
    /\ call \in UNION { { [fn |-> "context_and_render_page", page |-> m.slug,
                             pages_metadata |-> pm, base_url |-> b] :
                            m \in pm, b \in { ExampleBase, ExampleBase \o Slash } } :
                          pm \in TitledPagesSets }
    /\ result = NoResult

\* pages.rs:551-556: a page of the site is rendered
RenderPageContext ==
    /\ call.fn = "context_and_render_page"
    /\ result = NoResult
    /\ result' = context_and_render_page(call.page, call.pages_metadata, call.base_url)
    /\ UNCHANGED <<coordVars, watchVars, slotVars, handlerVars, ghostVars, site, req, resp, call>>

ContextNext == RenderPageContext

ContextSpec == InitContext /\ [][ContextNext]_vars

(***************************************************************************)
(* TokenSpec: the token sink of the URL rewriter fed one token stream      *)
(* (url_rewriter.rs:26-159).  Text is a sequence of characters; a tag name *)
(* is one element of it.                                                   *)
(***************************************************************************)
MaxTokens == 4

RECURSIVE replace(_, _, _)
replace(s, from, to) ==
    IF s = <<>> THEN <<>>
    ELSE (IF Head(s) = from THEN to ELSE <<Head(s)>>) \o replace(Tail(s), from, to)

AmpEntity == <<"&", "a", "m", "p", ";">>
LtEntity == <<"&", "l", "t", ";">>
GtEntity == <<"&", "g", "t", ";">>
QuotEntity == <<"&", "q", "u", "o", "t", ";">>
AposEntity == <<"&", "#", "3", "9", ";">>

\* url_rewriter.rs:87-93 with the ampersand replaced last
html_escape_amp_last(s) ==
    replace(replace(replace(replace(replace(s, "<", LtEntity), ">", GtEntity),
                            "\"", QuotEntity), "'", AposEntity), "&", AmpEntity)

\* url_rewriter.rs:87-93
html_escape(s) ==
    replace(replace(replace(replace(replace(s, "&", AmpEntity), "<", LtEntity),
                            ">", GtEntity), "\"", QuotEntity), "'", AposEntity)

\* url_rewriter.rs:52-77 for a tag without attributes
write_start_tag(name, self_closing) ==
    <<"<", name>> \o (IF self_closing THEN <<" ", "/", ">">> ELSE <<">">>)

\* url_rewriter.rs:79-84
write_end_tag(name) == <<"<", "/", name, ">">>

RawTagNames == {"script", "style"}

\* url_rewriter.rs:26-31, 35-42: UrlRewritingTokenSink::new
NewSink == [fn |-> "process_token", pos |-> 0, output |-> <<>>, pieces |-> <<>>,
            in_raw_tag |-> FALSE, panicked |-> FALSE]

\* url_rewriter.rs:100-156: what the token appends to the output
Written(token, in_raw_tag) ==
    CASE token.kind = "start" -> write_start_tag(token.name, token.self_closing)
      [] token.kind = "end" -> write_end_tag(token.name)
      [] token.kind = "comment" -> <<"<", "!", "-", "-">> \o token.data \o <<"-", "-", ">">>
      [] token.kind = "chars" -> IF in_raw_tag THEN token.data ELSE html_escape(token.data)
      [] OTHER -> <<>>

\* url_rewriter.rs:103-114: the flag after the token
FlagAfter(token, in_raw_tag) ==
    IF token.kind = "start" /\ token.name \in RawTagNames THEN TRUE
    ELSE IF token.kind = "end" /\ token.name \in RawTagNames THEN FALSE
    ELSE in_raw_tag

\* url_rewriter.rs:97-159: process_token; a ParseError token panics
process_token(sink, token) ==
    IF token.kind = "error" THEN [sink EXCEPT !.panicked = TRUE]
    ELSE [sink EXCEPT !.pos = @ + 1,
                      !.output = @ \o Written(token, sink.in_raw_tag),
                      !.pieces = Append(@, Written(token, sink.in_raw_tag)),
                      !.in_raw_tag = FlagAfter(token, sink.in_raw_tag)]

TagToken(kind, name, self_closing) ==
    [kind |-> kind, name |-> name, self_closing |-> self_closing, data |-> <<>>]

DataToken(kind, data) ==
    [kind |-> kind, name |-> "", self_closing |-> FALSE, data |-> data]

Texts == { <<"a">>, <<"&", "<", ">", "\"", "'">> }

Tokens ==
    { TagToken("start", n, FALSE) : n \in RawTagNames \cup {"p"} }
        \cup { TagToken("start", "script", TRUE) }
        \cup { TagToken("end", n, FALSE) : n \in RawTagNames \cup {"p"} }
        \cup { DataToken("chars", t) : t \in Texts }
        \cup { DataToken("comment", <<"a">>), DataToken("error", <<>>), DataToken("null", <<>>) }

RECURSIVE TokenStreams(_)
TokenStreams(n) ==
    IF n = 0 THEN { <<>> }
    ELSE TokenStreams(n - 1)
            \cup { Append(ts, t) : ts \in { x \in TokenStreams(n - 1) : Len(x) = n - 1 }, t \in Tokens }

InitTokens ==
    /\ InitCoordinator
    /\ site = NoSite
    /\ req = NoRequest
    /\ resp = NoResponse
    /\ call \in { [fn |-> "process_token", tokens |-> ts] : ts \in TokenStreams(MaxTokens) }
    /\ result = NewSink

\* the tokenizer hands the sink the next token of the stream
ProcessToken ==
    /\ call.fn = "process_token"
    /\ ~result.panicked
    /\ result.pos < Len(call.tokens)
    /\ result' = process_token(result, call.tokens[result.pos + 1])
    /\ UNCHANGED <<coordVars, watchVars, slotVars, handlerVars, ghostVars, site, req, resp, call>>

TokenNext == ProcessToken

TokenSpec == InitTokens /\ [][TokenNext]_vars

(***************************************************************************)
(* The coordinator with a watcher that may hang up (ClosureSpec): the      *)
(* coordinator loop of main.rs:112-183 on its own, no request in flight.   *)
(***************************************************************************)
\* main.rs:149-152 leaving the loop instead
LeaveLoop == "dead"

\* main.rs:149-152: where the Ok(None) arm takes the coordinator
AfterChannelClosed == "sleep"

\* the watcher drops its callback and with it the only sender
CloseChannel ==
    /\ pc # "dead"
    /\ ~ChannelIsClosed(chan)
    /\ chan' = Append(chan, Closed)
    /\ UNCHANGED <<coordVars, emitted, fs, slotVars, handlerVars, ghostVars, httpVars>>

\* main.rs:149-151: rx.recv() gives None
ChannelClosed ==
    /\ pc = "wait"
    /\ chan = <<Closed>>
    /\ pc' = AfterChannelClosed
    /\ waited' = 0
    /\ UNCHANGED <<pending_events, elapsed, timeout_duration, new_snapshot, builds>>
    /\ UNCHANGED <<watchVars, slotVars, handlerVars, ghostVars, httpVars>>

\* main.rs:151, 115-124: the sleep is over, the loop goes on
RetryAfterDelay ==
    /\ pc = "sleep"
    /\ waited >= retry_delay
    /\ pc' = "wait"
    /\ timeout_duration' = TimeoutDuration(pending_events, elapsed)
    /\ waited' = 0
    /\ UNCHANGED <<pending_events, elapsed, new_snapshot, builds>>
    /\ UNCHANGED <<watchVars, slotVars, handlerVars, ghostVars, httpVars>>

ClosureStep == CoordinatorStep \/ ChannelClosed \/ RetryAfterDelay

ClosureNext ==
    \/ Notify
    \/ Tick
    \/ CloseChannel
    \/ Recv
    \/ IdleTimeout
    \/ StartRebuild
    \/ LoadStatic
    \/ WriteStatic
    \/ LoadTera
    \/ LoadPages
    \/ WriteSite
    \/ ChannelClosed
    \/ RetryAfterDelay

ClosureSpec ==
    /\ Init
    /\ [][ClosureNext]_vars
    /\ WF_vars(Tick)
    /\ WF_vars(ClosureStep)

\* tokio polls every woken task and time passes: no step that stays enabled
\* is postponed forever
FairSpec ==
    /\ Spec
    /\ WF_vars(Tick)
    /\ WF_vars(CoordinatorStep)
    /\ \A h \in Handlers : WF_vars(HandlerStep(h))

(***************************************************************************)
(* Properties of the coordinator and the handlers.                         *)
(***************************************************************************)
RenderedSiteFields == {"pages_data", "aliases", "sitemap", "rss_feed", "atom_feed", "last_modified"}

\* C1: whatever field a handler reads while it holds the read guard under
\* which it read last_modified, the field comes from the same build as
\* last_modified: the slot is never replaced under a held read guard.
SnapshotAtomicity ==
    \A h \in Handlers :
        hpc[h] = "xml_body" => \A f \in RenderedSiteFields : rendered_site[f] = hobs[h]

\* C1 witness: a handler between its two reads of a snapshot that replaced an
\* earlier one, while the coordinator waits to publish the next
SnapshotAtomicityWitness ==
    \E h \in Handlers :
        /\ hpc[h] = "xml_body"
        /\ hobs[h] >= 1
        /\ pc = "write_site"
        /\ Waiting(rs_lock, Coord)

\* the coordinator's write request on l is queued ahead of h's read request,
\* and cannot be granted because h holds a read guard on l
WaitOnEachOther(l, h) ==
    /\ l.readers[h] > 0
    /\ \E i, j \in 1..Len(l.queue) :
         /\ i < j
         /\ l.queue[i].who = Coord
         /\ l.queue[j].who = h

\* C2: no handler and the coordinator ever wait on each other (a state that
\* no later step can leave, so the request is never answered).
NoMutualWait ==
    \A h \in Handlers : ~WaitOnEachOther(rs_lock, h) /\ ~WaitOnEachOther(sf_lock, h)

RebuildStarts == pc = "wait" /\ pc' \in {"load_static", "load_tera"}

\* C3: a burst of accepted events, each accepted less than the debounce
\* interval after the one before, gets exactly one rebuild: never a second
\* one, and always a first one.
DebounceOneRebuild ==
    /\ [](burst_rebuilds <= 1)
    /\ (pending_events # {}) ~> (burst_rebuilds = 1)

\* C3 witness: the one rebuild of a burst of two events has started
DebounceOneRebuildWitness ==
    /\ pc \in {"load_static", "load_tera"}
    /\ Cardinality(pending_events) = 2
    /\ burst_rebuilds = 1

\* C4: a rebuild starts only with paths pending and at least the debounce
\* interval after the most recent accepted event.
RebuildOnlyAfterQuiet ==
    [][RebuildStarts => (pending_events # {} /\ since_accept >= debounce_duration)]_vars

\* C4 witness: a rebuild has started with the paths of two accepted events
\* pending, at least the debounce interval after the later one
RebuildOnlyAfterQuietWitness ==
    /\ pc \in {"load_static", "load_tera"}
    /\ Cardinality(pending_events) = 2
    /\ since_accept >= debounce_duration
    /\ emitted = 2

\* C5: once the coordinator is idle again with nothing queued and nothing
\* pending, the published snapshots reflect every change made to the page
\* inputs and to the asset tiers.
QuietMeansPublished ==
    (pc = "wait" /\ chan = <<>> /\ pending_events = {})
        => (rendered_site.built_from = fs.pages /\ static_files.built_from = fs.assets)

\* C6: no failure met while rebuilding ends the coordinator task.
CoordinatorSurvives == pc # "dead"

(***************************************************************************)
(* The response layer (HttpSpec).                                          *)
(***************************************************************************)
ReservedPaths == {SitemapPath, RssPath, AtomPath}

\* The static file or page a request path names by main.rs:546-568: the
\* path without its leading slash as a key of the static table, else the
\* normalized path as a key of the page table.  None for an alias key and
\* for a path under /static/ that is no static key.
NamedResource(s, r) ==
    LET trimmed_path == TrimStartMatches(r.path, Slash)
        normalized_path == normalize_path(r.path)
    IN IF r.path \in ReservedPaths \/ HasKey(s.aliases, trimmed_path) THEN None
       ELSE IF HasKey(s.static_files, trimmed_path)
       THEN Some([content |-> Get(s.static_files, trimmed_path).content,
                  last_modified |-> Get(s.static_files, trimmed_path).last_modified])
       ELSE IF ~StartsWith(r.path, StaticPrefix) /\ HasKey(s.pages_data, normalized_path)
       THEN Some([content |-> Get(s.pages_data, normalized_path).html_content,
                  last_modified |-> Get(s.pages_data, normalized_path).last_modified])
       ELSE None

\* main.rs:502-545: the resource of a reserved path
ReservedResource(s, r) ==
    IF r.path = SitemapPath THEN Some([content |-> s.sitemap, last_modified |-> s.last_modified])
    ELSE IF r.path = RssPath THEN Some([content |-> s.rss_feed, last_modified |-> s.last_modified])
    ELSE IF r.path = AtomPath THEN Some([content |-> s.atom_feed, last_modified |-> s.last_modified])
    ELSE None

\* C7: a GET on a path other than /sitemap.xml, /rss.xml and /atom.xml is
\* answered by the first rule that matches: the path is an alias key, 301
\* with Location the alias target; the path is a key of the static table,
\* that file is served; the normalized path is a key of the page table,
\* that page is served; otherwise 404.
LookupPrecedence ==
    (req.method = "GET" /\ req.path \notin ReservedPaths) =>
        LET trimmed_path == TrimStartMatches(req.path, Slash)
            normalized_path == normalize_path(req.path)
        IN IF HasKey(site.aliases, trimmed_path)
           THEN /\ resp.status = 301
                /\ <<"location", Slash \o Get(site.aliases, trimmed_path).target>> \in resp.headers
           ELSE IF HasKey(site.static_files, trimmed_path)
           THEN resp = ServeFound(Get(site.static_files, trimmed_path).content,
                                  MimeOf(trimmed_path),
                                  Get(site.static_files, trimmed_path).last_modified, req)
           ELSE IF HasKey(site.pages_data, normalized_path)
           THEN resp = ServeFound(Get(site.pages_data, normalized_path).html_content,
                                  "text/html; charset=utf-8",
                                  Get(site.pages_data, normalized_path).last_modified, req)
           ELSE resp.status = 404

\* C8: a GET of a static file or page of length L with Range
\* bytes=start-end, start <= end < L (end = L-1 included), and no
\* conditional header is answered 206 with Content-Range
\* bytes start-end/L, Content-Length end-start+1 and the bytes start..end
\* of the resource as body.
SatisfiableRangeIsPartial ==
    (/\ req.method = "GET"
     /\ req.if_modified_since = NoHeader
     /\ req.range.form = "closed"
     /\ NamedResource(site, req).some
     /\ req.range.start <= req.range.end
     /\ req.range.end < Len(NamedResource(site, req).value.content))
    => LET content == NamedResource(site, req).value.content
       IN /\ resp.status = 206
          /\ <<"content-range", <<"bytes", req.range.start, req.range.end, Len(content)>>>>
                \in resp.headers
          /\ <<"content-length", req.range.end - req.range.start + 1>> \in resp.headers
          /\ resp.body = SubSeq(content, req.range.start + 1, req.range.end + 1)

\* C9: a GET or HEAD of a static file or page of length L with Range
\* bytes=start-end that is not satisfiable (start > end or end >= L) and no
\* conditional header is answered 416 with Content-Range bytes */L and an
\* empty body.
UnsatisfiableRangeIsRejected ==
    (/\ req.method \in {"GET", "HEAD"}
     /\ req.if_modified_since = NoHeader
     /\ req.range.form = "closed"
     /\ NamedResource(site, req).some
     /\ \/ req.range.start > req.range.end
        \/ req.range.end >= Len(NamedResource(site, req).value.content))
    => /\ resp.status = 416
       /\ <<"content-range", <<"bytes", "*", Len(NamedResource(site, req).value.content)>>>>
             \in resp.headers
       /\ resp.body = <<>>

\* the resource a request finds: sitemap, feed, static file or page
FoundResource(s, r) ==
    IF r.path \in ReservedPaths THEN ReservedResource(s, r) ELSE NamedResource(s, r)

\* C10: for a resource found by lookup (sitemap, feeds, static file, page)
\* and an If-Modified-Since header that parses as an HTTP date: when the
\* date is at or after the resource's last-modified time truncated to whole
\* seconds the response is 304 with an empty body; when it is earlier the
\* response is the one the same request gets without the header.
ConditionalGet ==
    (/\ req.method \in {"GET", "HEAD", "OPTIONS"}
     /\ req.if_modified_since.form = "date"
     /\ FoundResource(site, req).some)
    => LET last_modified == FoundResource(site, req).value.last_modified
           since == req.if_modified_since.secs * 1000
       IN IF since >= (last_modified \div 1000) * 1000
          THEN resp.status = 304 /\ resp.body = <<>>
          ELSE resp = handle_request([req EXCEPT !.if_modified_since = NoHeader], site)

\* a static file or page modified in the middle of a second is asked for
\* with the date of that second and answered 304; another is asked for with
\* an earlier date and answered with its content
ConditionalGetWitness ==
    /\ req.method = "GET"
    /\ req.if_modified_since.form = "date"
    /\ NamedResource(site, req).some
    /\ NamedResource(site, req).value.last_modified % 1000 # 0
    /\ req.if_modified_since.secs * 1000 = (NamedResource(site, req).value.last_modified \div 1000) * 1000
    /\ resp.status = 304

\* the response the same request gets without its If-Modified-Since header
WithoutSince == handle_request([req EXCEPT !.if_modified_since = NoHeader], site)

\* C11: a request whose If-Modified-Since value is malformed (text that is
\* no HTTP date, or bytes that are no header text) gets exactly the response
\* it would get without the header, and the handler does not fail.
MalformedSinceIgnored ==
    (req.method # "none" /\ req.if_modified_since.form \in {"garbage", "opaque"})
    => resp = WithoutSince /\ resp # Panicked

\* C12: an OPTIONS request is answered 204 with an Allow header and an empty
\* body, whatever the path resolves to and whatever conditional or range
\* headers it carries.
OptionsNoContent ==
    req.method = "OPTIONS"
    => /\ resp.status = 204
       /\ \E h \in resp.headers : h[1] = "allow"
       /\ resp.body = <<>>

\* C13: every response sent, whatever its status, carries the whole
\* baseline security-header set.
SecurityHeadersEverywhere ==
    (req.method # "none" /\ resp # Panicked) => SecurityHeaders \subseteq resp.headers

\* the response the same request gets with method GET
AsGet == handle_request([req EXCEPT !.method = "GET"], site)

\* C14: a HEAD request has the status and the headers of the GET request
\* for the same path and headers, and an empty body.
HeadLikeGet ==
    req.method = "HEAD"
    => /\ resp.status = AsGet.status
       /\ resp.headers = AsGet.headers
       /\ resp.body = <<>>

\* C14 witness: a HEAD answered 206 with a Content-Length where the GET has
\* a body
HeadLikeGetWitness ==
    /\ req.method = "HEAD"
    /\ resp.status = 206
    /\ \E h \in resp.headers : h[1] = "content-length" /\ h[2] > 0
    /\ AsGet.body # <<>>
    /\ resp.body = <<>>

(***************************************************************************)
(* The URL rewriter (UrlSpec).                                             *)
(***************************************************************************)
\* an attribute the rewriter handles has been rewritten for a site whose
\* base URL parses
Rewrote ==
    /\ call.fn = "rewrite_urls"
    /\ result # NoResult
    /\ should_rewrite_attr(call.html.tag, call.html.attr.name)
    /\ Url_parse(call.base_url).some

SiteBase == Url_parse(call.base_url).value
PageUrl == Url_join(SiteBase, call.current_path).value

\* v resolved against base by the URL-join rules, original when that fails
Resolved(base, v, original) ==
    IF Url_join(base, v).some THEN Url_to_string(Url_join(base, v).value) ELSE original

\* the value without the spaces around it
Unpadded(v) == CHOOSE c \in AttrCores : \E l, r \in Padding : v = l \o c \o r

\* the number of leading "../" of a relative reference
RECURSIVE CountUps(_)
CountUps(t) ==
    IF t = <<"..">> THEN 1
    ELSE IF Len(t) >= 2 /\ t[1] = ".." /\ t[2] = "/" THEN 1 + CountUps(SubSeq(t, 3, Len(t)))
    ELSE 0

\* C15 as written: the value is decided by the first rule that applies:
\* empty or starting with #, mailto:, javascript:, data:, tel: - unchanged;
\* has a scheme - unchanged; starts with / - resolved against the site
\* base; otherwise resolved against the page URL; a resolution failure
\* returns the original value.
FirstRuleDecides ==
    Rewrote =>
        LET v == call.html.attr.value
        IN result.value =
             IF \/ v = <<>>
                \/ StartsWithChar(v, "#")
                \/ \E n \in {"mailto", "javascript", "data", "tel"} : StartsWithScheme(v, n)
             THEN v
             ELSE IF HasScheme(v) THEN v
             ELSE IF StartsWithChar(v, "/") THEN Resolved(SiteBase, v, v)
             ELSE Resolved(PageUrl, v, v)

\* C15 amended: the rules apply to the value without the whitespace around
\* it.  Empty or starting with #, mailto:, javascript:, data:, tel:, or
\* parsing on its own as an absolute URL: the value without the whitespace
\* is returned.  Starting with /: resolved against the site base, /p giving
\* the origin of the site followed by /p.  Otherwise: resolved against the
\* page URL, so that on a page path ending in / a value x or ./x gives that
\* path followed by x and each leading ../ removes one trailing segment.  A
\* resolution failure returns the original value, whitespace included.
FirstRuleDecidesTrimmed ==
    Rewrote =>
        LET v == call.html.attr.value
            t == Unpadded(v)
            page == Url_to_string(PageUrl)
            u == IF Len(t) >= 2 /\ t[1] = "." /\ t[2] = "/" THEN SubSeq(t, 3, Len(t)) ELSE t
            ups == CountUps(u)
            x == SubSeq(u, 2 * ups + 1, Len(u))
        IN /\ result.value =
                IF \/ t = <<>>
                   \/ StartsWithChar(t, "#")
                   \/ \E n \in {"mailto", "javascript", "data", "tel"} : StartsWithScheme(t, n)
                THEN t
                ELSE IF Url_parse(t).some THEN t
                ELSE IF StartsWithChar(t, "/") THEN Resolved(SiteBase, t, v)
                ELSE Resolved(PageUrl, t, v)
           /\ (Len(t) = 2 /\ t[1] = "/" /\ t[2] \notin Delimiters)
                => result.value = SubSeq(Url_to_string(SiteBase), 1, 5) \o t
           /\ (/\ t # <<>>
               /\ ~HasScheme(t)
               /\ t[1] \notin {"#", "/"}
               /\ x = <<>> \/ x[1] \notin Delimiters
               /\ Len(page) - 2 * ups >= 6)
                => result.value = SubSeq(page, 1, Len(page) - 2 * ups) \o x

\* C15 witness: " ../x" on the page /a/b/ of https://example.com is
\* rewritten to https://example.com/a/x
FirstRuleDecidesWitness ==
    /\ Rewrote
    /\ call.html.attr.value = <<" ", "..", "/", "x">>
    /\ call.base_url = ExampleBase
    /\ call.current_path = <<"/", "a", "/", "b", "/">>
    /\ result.value = ExampleBase \o <<"/", "a", "/", "x">>

\* the call rewrites attribute name = value of a tag on a page of
\* https://example.com
RewroteExample(tag, name, value, path) ==
    /\ result # NoResult
    /\ call = [fn |-> "rewrite_urls",
               html |-> [tag |-> tag, attr |-> [name |-> name, value |-> value]],
               base_url |-> ExampleBase, current_path |-> path]

\* C16 as written: src ./img.png on /a/b/ gives
\* https://example.com/a/img.png, href ../other.html on /a/b/c/ gives a URL
\* of path /a/other.html.
ExamplesAsWritten ==
    /\ RewroteExample("img", "src", <<".", "/", "img.png">>, <<"/", "a", "/", "b", "/">>)
         => result.value = ExampleBase \o <<"/", "a", "/", "img.png">>
    /\ RewroteExample("a", "href", <<"..", "/", "other.html">>, <<"/", "a", "/", "b", "/", "c", "/">>)
         => result.value = ExampleBase \o <<"/", "a", "/", "other.html">>

\* C16 amended: src ./img.png on /a/b/ gives
\* https://example.com/a/b/img.png, href ../other.html on /a/b/c/ gives
\* https://example.com/a/b/other.html.
ExamplesAsBuilt ==
    /\ RewroteExample("img", "src", <<".", "/", "img.png">>, <<"/", "a", "/", "b", "/">>)
         => result.value = ExampleBase \o <<"/", "a", "/", "b", "/", "img.png">>
    /\ RewroteExample("a", "href", <<"..", "/", "other.html">>, <<"/", "a", "/", "b", "/", "c", "/">>)
         => result.value = ExampleBase \o <<"/", "a", "/", "b", "/", "other.html">>

\* C16 witness: href ../other.html has been rewritten on /a/b/c/
ExamplesAsBuiltWitness ==
    /\ RewroteExample("a", "href", <<"..", "/", "other.html">>, <<"/", "a", "/", "b", "/", "c", "/">>)
    /\ result.value[Len(result.value)] = "other.html"

(***************************************************************************)
(* The page graph (OrderSpec, GraphSpec).                                  *)
(***************************************************************************)
\* a comes before b as the claim describes the order: lower priority
\* first; at equal priority dated before undated and the later of two
\* dates first; then the smaller slug
ComesBefore(a, b) ==
    \/ a.sort_key < b.sort_key
    \/ /\ a.sort_key = b.sort_key
       /\ \/ a.date.some /\ ~b.date.some
          \/ a.date.some /\ b.date.some /\ DayOf(a.date.value) > DayOf(b.date.value)
          \/ /\ a.date = b.date
             /\ StrCmp(a.slug, b.slug) = "Less"

\* C17: on keys with distinct slugs PageSortKey::cmp is a strict total
\* order (never Equal, antisymmetric, transitive) and it is the order by
\* priority ascending, dated before undated, later date first, slug
\* ascending.
SortKeyTotalOrder ==
    (result # NoResult /\ call.fn = "cmp"
        /\ call.a.slug # call.b.slug /\ call.b.slug # call.c.slug /\ call.a.slug # call.c.slug)
    => /\ result.ab \in {"Less", "Greater"}
       /\ (result.ab = "Less") = (result.ba = "Greater")
       /\ (result.ab = "Less" /\ result.bc = "Less") => result.ac = "Less"
       /\ (result.ab = "Less") = ComesBefore(call.a, call.b)

\* C17 witness: two dated keys of equal priority, the one with the later
\* date and the larger slug compares Less
SortKeyTotalOrderWitness ==
    /\ result # NoResult
    /\ call.fn = "cmp"
    /\ call.a.sort_key = call.b.sort_key
    /\ call.a.date.some /\ call.b.date.some
    /\ DayOf(call.a.date.value) > DayOf(call.b.date.value)
    /\ StrCmp(call.a.slug, call.b.slug) = "Greater"
    /\ call.c.slug \notin {call.a.slug, call.b.slug}
    /\ result.ab = "Less"

\* the slug without its last segment and without the slash before it
RECURSIVE DropTrailingName(_)
DropTrailingName(str) ==
    IF str = <<>> \/ str[Len(str)] = "/" THEN str
    ELSE DropTrailingName(SubSeq(str, 1, Len(str) - 1))

SlugMinusLastSegment(slug) ==
    LET bare == IF EndsWith(slug, Slash) THEN SubSeq(slug, 1, Len(slug) - 1) ELSE slug
        rest == DropTrailingName(bare)
    IN IF rest = <<>> THEN <<>> ELSE SubSeq(rest, 1, Len(rest) - 1)

\* the sort key of a page of the content directory
KeyOfPage(slug) ==
    LET m == CHOOSE q \in call.pages_metadata : q.slug = slug
    IN [sort_key |-> m.sort_key, date |-> m.date, slug |-> slug]

\* the places <<prefix, index>> of sibling_orders that hold the slug
PlacesOf(slug) ==
    { pl \in UNION { { <<prefix, i>> : i \in DOMAIN result.sibling_orders[prefix] } :
                     prefix \in DOMAIN result.sibling_orders } :
        result.sibling_orders[pl[1]][pl[2]] = slug }

Built == result # NoResult /\ call.fn = "preload_pages_metadata"

\* C18: in the built sibling_orders every page slug appears exactly once,
\* in the group keyed by its slug minus the last segment, the groups hold
\* nothing but page slugs, and every group's list is in descending
\* PageSortKey order: of two entries the later one comes before the earlier
\* one in PageSortKey order.
SiblingOrdersGrouped ==
    Built =>
        /\ \A m \in call.pages_metadata :
            /\ Cardinality(PlacesOf(m.slug)) = 1
            /\ \A pl \in PlacesOf(m.slug) : pl[1] = SlugMinusLastSegment(m.slug)
        /\ \A prefix \in DOMAIN result.sibling_orders :
            LET pages == result.sibling_orders[prefix]
            IN /\ pages # <<>>
               /\ \A i \in DOMAIN pages : \E m \in call.pages_metadata : m.slug = pages[i]
               /\ \A i, j \in DOMAIN pages :
                    i < j => ComesBefore(KeyOfPage(pages[j]), KeyOfPage(pages[i]))

\* C18 witness: the root and a/ share the group of the empty prefix, and
\* in the group of a/ the page a/b/ of higher priority stands before a/c/
SiblingOrdersGroupedWitness ==
    /\ Built
    /\ DOMAIN result.sibling_orders = {<<>>, <<"a">>, <<"a", "/", "b">>}
    /\ Len(result.sibling_orders[<<>>]) = 2
    /\ result.sibling_orders[<<"a">>] = << <<"a", "/", "b", "/">>, <<"a", "/", "c", "/">> >>
    /\ KeyOfPage(<<"a", "/", "b", "/">>).sort_key > KeyOfPage(<<"a", "/", "c", "/">>).sort_key

\* C19: in the sibling order of every parent prefix, of two pages with
\* equal priority the dated page stands before the undated page.
DatedBeforeUndated ==
    Built =>
        \A prefix \in DOMAIN result.sibling_orders :
            LET pages == result.sibling_orders[prefix]
            IN \A i, j \in DOMAIN pages :
                (/\ KeyOfPage(pages[i]).sort_key = KeyOfPage(pages[j]).sort_key
                 /\ KeyOfPage(pages[i]).date.some
                 /\ ~KeyOfPage(pages[j]).date.some) => i < j

\* the number of path segments of a slug: its runs of characters between
\* slashes
Segments(slug) ==
    Cardinality({ i \in 1..Len(slug) : slug[i] # "/" /\ (i = 1 \/ slug[i - 1] = "/") })

\* the slugs of the children of a summary, of their children, and so on
RECURSIVE DescendantSlugs(_)
DescendantSlugs(summary) ==
    UNION { {summary.children[i].slug} \cup DescendantSlugs(summary.children[i]) :
            i \in DOMAIN summary.children }

\* the pages whose children list holds the slug
ParentsOf(slug) ==
    { page \in result.pages_summaries : \E i \in DOMAIN page.children : page.children[i].slug = slug }

\* C20: in the built pages_summaries every entry of a page's children has
\* a slug that starts with the page's slug and has exactly one more path
\* segment, and is the final summary of that slug, its own children list
\* included; no page is among its own descendants, no page is listed twice
\* by a parent, and no page is a child of two parents.
ChildrenForest ==
    Built =>
        /\ \A page \in result.pages_summaries :
            /\ \A i \in DOMAIN page.children :
                LET child == page.children[i]
                IN /\ StartsWith(child.slug, page.slug)
                   /\ Segments(child.slug) = Segments(page.slug) + 1
                   /\ child \in result.pages_summaries
            /\ \A i, j \in DOMAIN page.children :
                i # j => page.children[i].slug # page.children[j].slug
            /\ page.slug \notin DescendantSlugs(page)
        /\ \A m \in call.pages_metadata :
            /\ Cardinality({ page \in result.pages_summaries : page.slug = m.slug }) = 1
            /\ Cardinality(ParentsOf(m.slug)) <= 1

\* C20 witness: a/ has the children a/b/ and a/c/, and the entry of a/b/
\* attached to it already lists a/b/c/
ChildrenForestWitness ==
    /\ Built
    /\ \E page \in result.pages_summaries :
        /\ page.slug = <<"a", "/">>
        /\ Len(page.children) = 2
        /\ \E i \in DOMAIN page.children :
            /\ page.children[i].slug = <<"a", "/", "b", "/">>
            /\ Len(page.children[i].children) = 1
            /\ page.children[i].children[1].slug = <<"a", "/", "b", "/", "c", "/">>

(***************************************************************************)
(* The content directory (ContentSpec).                                    *)
(***************************************************************************)
\* C21: two builds of the same unchanged set of page files yield the same
\* PreloadedMetadata, field by field.
RebuildIsDeterministic ==
    (result.fn = "rebuild" /\ Len(result.runs) >= 2)
    => \A i, j \in DOMAIN result.runs : result.runs[i] = result.runs[j]

\* the files of the directory that load_pages_metadata does not skip
LoadedFiles ==
    { call.dir[i] : i \in { k \in DOMAIN call.dir : call.show_drafts \/ ~call.dir[k].draft } }

\* C22: different content files get different slugs, and every loaded
\* file has an entry of its own in pages_metadata, made from that file.
EveryFileHasItsPage ==
    (result.fn = "rebuild" /\ result.runs # <<>>)
    => /\ \A i, j \in DOMAIN call.dir :
            i # j => slugify(call.dir[i].path) # slugify(call.dir[j].path)
       /\ \A f \in LoadedFiles :
            \E m \in result.runs[1].pages_metadata :
                m.slug = slugify(f.path) /\ m.content = f.path

(***************************************************************************)
(* Permalinks (HttpSpec).                                                  *)
(***************************************************************************)
\* the URL paths of a page: "/" followed by its slug, with and without the
\* slug's trailing slash
PermalinkPaths(slug) == {Slash \o slug, Slash \o SubSeq(slug, 1, Len(slug) - 1)}

\* C23: for every slug s of the page table normalize_path gives s for the
\* path / followed by s, with or without the trailing slash, and a plain
\* GET on such a path that is neither an alias key nor a static-file key
\* is answered 200 with the HTML of that page.
PermalinkServesPage ==
    (req.method = "GET" /\ req.if_modified_since = NoHeader /\ req.range = NoHeader) =>
        \A page \in site.pages_data :
            req.path \in PermalinkPaths(page.key) =>
                /\ normalize_path(req.path) = page.key
                /\ (/\ ~HasKey(site.aliases, TrimStartMatches(req.path, Slash))
                    /\ ~HasKey(site.static_files, TrimStartMatches(req.path, Slash)))
                   => /\ resp.status = 200
                      /\ resp.body = page.html_content

(***************************************************************************)
(* The coordinator and the handlers, continued (Spec, FairSpec).           *)
(***************************************************************************)
\* C24: a request is answered from one snapshot generation: when the
\* handler holds the guard under which it looks the page up, RenderedSite
\* is the build whose alias table the same request consulted.
OneSnapshotPerRequest ==
    \A h \in Handlers :
        (hpc[h] = "page_wait" /\ ~Waiting(rs_lock, h)) => rendered_site.pages_data = hobs[h]

\* a rebuild has started and has not finished
Rebuilding == pc \in {"load_static", "write_static", "load_tera", "load_pages", "write_site"}

\* the channel holds an event the coordinator will accept
AcceptableQueued ==
    \E i \in DOMAIN chan : chan[i].ok /\ KindQueues(chan[i]) /\ RelevantPaths(chan[i]) # {}

\* C25: a rebuild that has started runs to completion; the end of a
\* rebuild leaves the events that arrived meanwhile in the channel; an
\* acceptable event queued during a rebuild is accepted after it, which
\* starts a fresh debounce period; and pending paths lead to a rebuild.
MidRebuildEventsRebuilt ==
    /\ Rebuilding ~> (pc = "wait")
    /\ [][(Rebuilding /\ pc' = "wait") => chan' = chan]_vars
    /\ (Rebuilding /\ AcceptableQueued) ~> (pc = "wait" /\ pending_events # {} /\ since_accept = 0)
    /\ (pc = "wait" /\ pending_events # {}) ~> Rebuilding

\* the path lies under the top-level static directory or under the
\* theme's static directory
UnderStaticAssetsDir(path) ==
    PathStartsWith(path, <<"static">>) \/ PathStartsWith(path, theme_static_dir)

\* C26: a rebuild reloads the static files if and only if a pending path
\* lies under a static-assets directory; a static reload replaces
\* StaticFiles and leaves RenderedSite alone, a full rebuild replaces
\* RenderedSite and leaves StaticFiles alone, and both end with nothing
\* pending.
ScopeDecision ==
    [][/\ RebuildStarts =>
            ((pc' = "load_static") <=> (\E path \in pending_events : UnderStaticAssetsDir(path)))
       /\ (pc = "write_static" /\ pc' = "wait") =>
            (static_files' = new_snapshot /\ rendered_site' = rendered_site /\ pending_events' = {})
       /\ (pc = "write_site" /\ pc' = "wait") =>
            (rendered_site' = new_snapshot /\ static_files' = static_files /\ pending_events' = {})]_vars

(***************************************************************************)
(* Channel closure (ClosureSpec).                                          *)
(***************************************************************************)
\* C27: when the channel reports closure the coordinator goes to sleep,
\* it leaves the sleep only for the top of its loop and only after the
\* full delay, the pending paths are kept through both steps, and every
\* sleep ends.
ClosureIsRetried ==
    /\ [][(pc = "wait" /\ chan = <<Closed>> /\ pc' # "wait")
            => (pc' = "sleep" /\ pending_events' = pending_events)]_vars
    /\ [][(pc = "sleep" /\ pc' # "sleep")
            => (pc' = "wait" /\ waited >= retry_delay /\ pending_events' = pending_events)]_vars
    /\ (pc = "sleep") ~> (pc = "wait" /\ chan = <<Closed>>)

\* C27 witness: the channel closed with a path pending, and the delay of
\* the sleep that followed is over
ClosureIsRetriedWitness ==
    /\ pc = "sleep"
    /\ waited >= retry_delay
    /\ chan = <<Closed>>
    /\ pending_events # {}

(***************************************************************************)
(* Raw text (TokenSpec).                                                   *)
(***************************************************************************)
IsRawStart(token) == token.kind = "start" /\ token.name \in {"script", "style"}
IsRawEnd(token) == token.kind = "end" /\ token.name \in {"script", "style"}

\* token i comes after a script or style start tag with no script or style
\* end tag in between
InRawText(tokens, i) ==
    \E j \in 1..(i - 1) :
        /\ IsRawStart(tokens[j])
        /\ \A k \in (j + 1)..(i - 1) : ~IsRawEnd(tokens[k])

EscapedChar(c) ==
    CASE c = "&" -> <<"&", "a", "m", "p", ";">>
      [] c = "<" -> <<"&", "l", "t", ";">>
      [] c = ">" -> <<"&", "g", "t", ";">>
      [] c = "\"" -> <<"&", "q", "u", "o", "t", ";">>
      [] c = "'" -> <<"&", "#", "3", "9", ";">>
      [] OTHER -> <<c>>

RECURSIVE EscapedText(_)
EscapedText(s) == IF s = <<>> THEN <<>> ELSE EscapedChar(Head(s)) \o EscapedText(Tail(s))

RECURSIVE Concat(_)
Concat(ps) == IF ps = <<>> THEN <<>> ELSE Head(ps) \o Concat(Tail(ps))

\* C28: of the tokens processed so far, character data in raw text was
\* written as it came and all other character data with & < > " ' escaped;
\* the output is what the tokens wrote, in order; and the flag says
\* whether the next token is in raw text.
RawTextVerbatim ==
    (call.fn = "process_token") =>
        /\ Len(result.pieces) = result.pos
        /\ \A i \in 1..result.pos :
              (call.tokens[i].kind = "chars") =>
                  result.pieces[i] = IF InRawText(call.tokens, i)
                                     THEN call.tokens[i].data
                                     ELSE EscapedText(call.tokens[i].data)
        /\ result.output = Concat(result.pieces)
        /\ result.in_raw_tag = InRawText(call.tokens, result.pos + 1)

\* C28 witness: the same text written as it came inside a script element
\* and escaped after the element's end tag
RawTextVerbatimWitness ==
    /\ call.fn = "process_token"
    /\ result.pos = 4
    /\ IsRawStart(call.tokens[1])
    /\ call.tokens[2].kind = "chars"
    /\ IsRawEnd(call.tokens[3])
    /\ call.tokens[4] = call.tokens[2]
    /\ result.pieces[2] = call.tokens[2].data
    /\ result.pieces[4] # call.tokens[4].data

(***************************************************************************)
(* The template context of a page (ContextSpec).                           *)
(***************************************************************************)
Rendered == call.fn = "context_and_render_page" /\ result # NoResult

\* the first k segments of a slug, slashes between them
AncestorPrefix(slug, k) ==
    LET last == CHOOSE i \in 1..Len(slug) :
                    /\ slug[i] # "/"
                    /\ Cardinality({ j \in 1..i : slug[j] # "/" }) = k
    IN SubSeq(slug, 1, last)

\* the title the entry of a prefix should carry: that of the page at the
\* prefix when it has one, the prefix text otherwise
TitleAt(prefix) ==
    IF \E m \in call.pages_metadata : m.slug = prefix \o Slash /\ m.title.some
    THEN (CHOOSE m \in call.pages_metadata : m.slug = prefix \o Slash).title.value
    ELSE prefix

\* C29: the breadcrumbs of the root page are empty; those of any other
\* page are one entry for the root and one for each proper ancestor
\* prefix, shortest first, each titled with the title of the page at that
\* prefix when that page has a title and with the prefix text otherwise.
BreadcrumbTitles ==
    Rendered =>
        IF call.page = Slash THEN result.breadcrumbs = <<>>
        ELSE /\ Len(result.breadcrumbs) = Segments(call.page)
             /\ (\E m \in call.pages_metadata : m.slug = Slash /\ m.title.some)
                    => result.breadcrumbs[1].title = MetadataOf(call.pages_metadata, Slash).title.value
             /\ \A k \in 1..(Segments(call.page) - 1) :
                    result.breadcrumbs[k + 1].title = TitleAt(AncestorPrefix(call.page, k))

\* C30: every entry of page.children is a page one segment below the page
\* and is not the page itself.
ChildrenOneBelow ==
    Rendered =>
        \A i \in 1..Len(result.children) :
            /\ result.children[i] # call.page
            /\ Segments(result.children[i]) = Segments(call.page) + 1
            /\ StartsWith(result.children[i], TrimEndMatches(call.page, Slash))

====
